---------------------------- MODULE Spec2Model ----------------------------
(***************************************************************************)
(* Model of the statement-ingestion pipeline of onojk/budget-tracker:      *)
(* the amount tokenizer and the two direction-inference implementations    *)
(* (pure functions over strings), the import bridge import_ocr_rows, the   *)
(* dedupe and transfer-reconciliation passes that rewrite is_transfer, the *)
(* upload intake process_uploaded_statement_files and the downloads        *)
(* importer import_everything_from_downloads.main.                         *)
(*                                                                         *)
(* Strings are TLA+ strings (Len, SubSeq and \o act on them as on Python   *)
(* str).  Money values are integers in hundredths (68.02 is 6802).         *)
(* Dates are day numbers; 0 stands for a missing date (None / "").         *)
(***************************************************************************)
EXTENDS Integers, Sequences, FiniteSets, TLC

VARIABLES
    db,         \* the "transaction" table: sequence of records, id = index
    last,       \* summary of the last operation that ran (return value, inputs)
    cycle,      \* progress of the refresh cycle import -> dedupe -> reconcile
    nOps,       \* number of operations run so far (bounded)
    artifacts,  \* statements_dir: artifact name -> OCR text id, NoText if absent
    produced,   \* content checksums that produced an artifact in an earlier run
    checksums,  \* statements_dir/checksums_all.txt of the downloads importer
    prev,       \* summary of the operation before last
    given,      \* every normalised row handed to import_ocr_rows so far
    tok,        \* amount token handed to the amount functions
    ctx,        \* context (description) string handed to the amount functions
    res,        \* results of the amount functions on (tok, ctx)
    ocr_text,   \* an OCR text file handed to a parser: its name and lines
    parsed      \* what the parser returned for ocr_text

vars == <<db, last, cycle, nOps, artifacts, produced, checksums, prev, given, tok, ctx, res,
          ocr_text, parsed>>
dbVars == <<db, last, cycle, nOps, artifacts, produced, checksums, prev, given>>
amtVars == <<tok, ctx, res>>
parseVars == <<ocr_text, parsed>>

-----------------------------------------------------------------------------
(* String helpers: Python str methods used by the code.                    *)

Char(s, i) == SubSeq(s, i, i)

\* Python: w in s
Contains(s, w) ==
    \E i \in 1..(Len(s) - Len(w) + 1) : SubSeq(s, i, i + Len(w) - 1) = w

\* Python: s.startswith(w), s.endswith(w)
StartsWith(s, w) == Len(s) >= Len(w) /\ SubSeq(s, 1, Len(w)) = w
EndsWith(s, w) == Len(s) >= Len(w) /\ SubSeq(s, Len(s) - Len(w) + 1, Len(s)) = w

RECURSIVE LStrip(_)
LStrip(s) == IF Len(s) > 0 /\ Char(s, 1) = " " THEN LStrip(SubSeq(s, 2, Len(s))) ELSE s

RECURSIVE RStrip(_)
RStrip(s) ==
    IF Len(s) > 0 /\ Char(s, Len(s)) = " " THEN RStrip(SubSeq(s, 1, Len(s) - 1)) ELSE s

\* Python: s.strip()
Strip(s) == LStrip(RStrip(s))

\* Python: s.replace(c, "") for a one-character c
RECURSIVE RemoveChar(_, _)
RemoveChar(s, c) ==
    IF Len(s) = 0 THEN ""
    ELSE (IF Char(s, 1) = c THEN "" ELSE Char(s, 1)) \o RemoveChar(SubSeq(s, 2, Len(s)), c)

LowerLetters == "abcdefghijklmnopqrstuvwxyz"
UpperLetters == "ABCDEFGHIJKLMNOPQRSTUVWXYZ"

UpperChar(c) ==
    IF \E i \in 1..26 : Char(LowerLetters, i) = c
    THEN Char(UpperLetters, CHOOSE i \in 1..26 : Char(LowerLetters, i) = c)
    ELSE c

LowerChar(c) ==
    IF \E i \in 1..26 : Char(UpperLetters, i) = c
    THEN Char(LowerLetters, CHOOSE i \in 1..26 : Char(UpperLetters, i) = c)
    ELSE c

\* Python: s.upper(), s.lower(), character by character
RECURSIVE UpperOf(_)
UpperOf(s) == IF Len(s) = 0 THEN "" ELSE UpperChar(Char(s, 1)) \o UpperOf(SubSeq(s, 2, Len(s)))

RECURSIVE LowerOf(_)
LowerOf(s) == IF Len(s) = 0 THEN "" ELSE LowerChar(Char(s, 1)) \o LowerOf(SubSeq(s, 2, Len(s)))

-----------------------------------------------------------------------------
(* Inputs of the model.                                                    *)

NoDate == 0

\* a row dict as the parsers build it (Description repeats Merchant)
Row(date, amount, merchant, source, account, direction, category, notes) ==
    [Date |-> date, Amount |-> amount, Merchant |-> merchant, Source |-> source,
     Account |-> account, Direction |-> direction, Description |-> merchant,
     Category |-> category, Notes |-> notes]

\* a transfer out of checking
RowA == Row(3, -5000, "TRANSFER TO SAVINGS", "Chase", "Checking", "debit", "", "from jan_ocr.txt")
\* the same transaction handed in again: other notes, category and padding
RowA2 == Row(3, -5000, " TRANSFER TO SAVINGS ", "Chase", "Checking", "Transfer", "Transfer",
             "from jan_copy_ocr.txt")
\* its counterpart on the Venmo side, one day later
RowB == Row(4, 5000, "VENMO CASHOUT", "Venmo", "Venmo Balance", "credit", "", "from venmo_ocr.txt")
\* a screenshot of RowA: no Source, no Account, no Direction
RowS == Row(3, -5000, "TRANSFER TO SAVINGS", "", "", "", "", "from shot_ocr.txt")
\* a row whose date could not be read
RowU == Row(NoDate, -1250, "COFFEE", "Chase", "Checking", "debit", "Dining", "from jan_ocr.txt")

RowPool == {RowA, RowA2, RowB, RowS, RowU}

\* context strings handed to the direction inference
Contexts ==
    {"", "CARD PURCHASE AMAZON", "DIRECT DEPOSIT PAYROLL", "REFUND", "Late Fee",
     "COFFEE SHOP"}

\* the strings the case conversions meet in this model; their results are
\* tabulated once
KnownText ==
    LET raw == UNION {{r.Merchant, r.Source, r.Account, r.Direction, r.Category} :
                         r \in RowPool}
                 \cup Contexts \cup {"Screenshot OCR", "debit", "ChaseScreenshot",
                                     "Chase Checking (screenshot)", ".pdf", ".PDF",
                                     ".csv", ".png", ".txt"}
        stripped == raw \cup {Strip(x) : x \in raw}
    IN  stripped \cup {UpperOf(x) : x \in stripped} \cup {LowerOf(x) : x \in stripped}

UpperTable == [x \in KnownText |-> UpperOf(x)]
LowerTable == [x \in KnownText |-> LowerOf(x)]

\* Python: s.upper(), s.lower()
Upper(s) == IF s \in KnownText THEN UpperTable[s] ELSE UpperOf(s)
Lower(s) == IF s \in KnownText THEN LowerTable[s] ELSE LowerOf(s)

\* Python: " ".join(s.split()) -- collapse runs of blanks, trim both ends
RECURSIVE CollapseBlanks(_)
CollapseBlanks(s) ==
    IF Len(s) = 0 THEN ""
    ELSE IF Char(s, 1) = " " /\ (Len(s) = 1 \/ Char(s, 2) = " ")
         THEN CollapseBlanks(SubSeq(s, 2, Len(s)))
         ELSE Char(s, 1) \o CollapseBlanks(SubSeq(s, 2, Len(s)))

JoinSplit(s) == CollapseBlanks(LStrip(s))

-----------------------------------------------------------------------------
(* Numeric literals: Decimal(token) and float(token) on the characters the *)
(* amount tokens are made of.  A value is an integer number of hundredths; *)
(* NotANumber stands for InvalidOperation / ValueError.                    *)

Digits == "0123456789"
IsDigit(c) == \E i \in 1..10 : Char(Digits, i) = c
DigitVal(c) == (CHOOSE i \in 1..10 : Char(Digits, i) = c) - 1

\* a parsed number, or the failure of the conversion
Num(v) == [ok |-> TRUE, v |-> v]
NotANumber == [ok |-> FALSE, v |-> 0]

RECURSIVE AllDigits(_)
AllDigits(s) == Len(s) = 0 \/ (IsDigit(Char(s, 1)) /\ AllDigits(SubSeq(s, 2, Len(s))))

RECURSIVE DigitsVal(_)
DigitsVal(s) ==
    IF Len(s) = 0 THEN 0
    ELSE DigitsVal(SubSeq(s, 1, Len(s) - 1)) * 10 + DigitVal(Char(s, Len(s)))

\* unsigned literal: digits, optionally one '.', at least one digit; the
\* model's values are hundredths, so at most two fraction digits are read
UnsignedOk(s) ==
    \/ Len(s) > 0 /\ AllDigits(s)
    \/ \E p \in 1..Len(s) :
          /\ Char(s, p) = "."
          /\ AllDigits(SubSeq(s, 1, p - 1))
          /\ AllDigits(SubSeq(s, p + 1, Len(s)))
          /\ Len(s) > 1
          /\ Len(s) - p <= 2

UnsignedVal(s) ==
    IF AllDigits(s) THEN DigitsVal(s) * 100
    ELSE LET p == CHOOSE q \in 1..Len(s) : Char(s, q) = "."
             frac == SubSeq(s, p + 1, Len(s))
         IN  DigitsVal(SubSeq(s, 1, p - 1)) * 100
               + (IF Len(frac) = 1 THEN DigitsVal(frac) * 10 ELSE DigitsVal(frac))

\* Decimal(s) / float(s): surrounding blanks dropped, an optional single
\* sign, then an unsigned literal; anything else fails
NumberOf(str) ==
    LET s == Strip(str)
        signed == Len(s) > 0 /\ Char(s, 1) \in {"+", "-"}
        body == IF signed THEN SubSeq(s, 2, Len(s)) ELSE s
    IN  IF ~UnsignedOk(body) THEN NotANumber
        ELSE IF signed /\ Char(s, 1) = "-" THEN Num(0 - UnsignedVal(body))
        ELSE Num(UnsignedVal(body))

-----------------------------------------------------------------------------
(* Amount tokenizer: chase_amount_utils.parse_amount_token.                *)

\* stands for U+2212 (the unicode minus the code normalises to '-')
UnicodeMinus == "~"

RECURSIVE ReplaceUnicodeMinus(_)
ReplaceUnicodeMinus(s) ==
    IF Len(s) = 0 THEN ""
    ELSE (IF Char(s, 1) = UnicodeMinus THEN "-" ELSE Char(s, 1))
           \o ReplaceUnicodeMinus(SubSeq(s, 2, Len(s)))

\* the three marker-stripping steps shared by parse_amount_token and
\* ocr_pipeline.parse_signed_amount, in the code's order: trailing minus,
\* enclosing parentheses, leading minus, then '$' and ',' removed
StripMarkers(raw) ==
    LET t0 == ReplaceUnicodeMinus(Strip(raw))
        trail == EndsWith(t0, "-")
        t1 == IF trail THEN SubSeq(t0, 1, Len(t0) - 1) ELSE t0
        paren == StartsWith(t1, "(") /\ EndsWith(t1, ")")
        t2 == IF paren THEN SubSeq(t1, 2, Len(t1) - 1) ELSE t1
        lead == StartsWith(t2, "-")
        t3 == IF lead THEN SubSeq(t2, 2, Len(t2)) ELSE t2
    IN  [negative |-> trail \/ paren \/ lead,
         token |-> RemoveChar(RemoveChar(t3, "$"), ",")]

\* returns None (NotANumber) or the signed value
parse_amount_token(token) ==
    LET m == StripMarkers(token)
        n == IF m.token = "" THEN NotANumber ELSE NumberOf(m.token)
    IN  IF ~n.ok THEN NotANumber
        ELSE IF m.negative /\ n.v > 0 THEN Num(0 - n.v)
        ELSE n

-----------------------------------------------------------------------------
(* Direction inference, legacy implementation:                             *)
(* ocr_pipeline.parse_signed_amount (called by _normalize_row).            *)

DEBIT_WORDS ==
    <<"CARD PURCHASE", "DEBIT", "WITHDRAWAL", "ATM", "PAYMENT", "PURCHASE", "POS",
      "CHECKCARD", "CHECK CARD", "CHECK", "FEE", "CHARGE", "INTEREST">>

CREDIT_WORDS ==
    <<"DIRECT DEP", "DIRECT DEPOSIT", "PAYROLL", "DEP PPD", "ACH CREDIT", "CREDIT",
      "REFUND", "REVERSAL", "ADJUSTMENT", "INTEREST PAID", "INTEREST PAYMENT",
      "INT EARNED", "CASHBACK", "CASH BACK">>

\* Python: any(w in text for w in words)
AnyWordIn(text, words) == \E i \in 1..Len(words) : Contains(text, words[i])

\* always returns a value: Decimal("0.00") when the token does not parse
PipelineParseSignedAmount(raw, context) ==
    LET m == StripMarkers(raw)
        n == IF m.token = "" THEN NotANumber ELSE NumberOf(m.token)
        value == IF m.negative THEN 0 - n.v ELSE n.v
        c == Upper(context)
    IN  IF ~n.ok THEN 0
        ELSE IF AnyWordIn(c, DEBIT_WORDS) THEN (IF value > 0 THEN 0 - value ELSE value)
        ELSE IF AnyWordIn(c, CREDIT_WORDS) THEN (IF value < 0 THEN 0 - value ELSE value)
        ELSE value

-----------------------------------------------------------------------------
(* Direction inference, direction_rules.py.                                *)

DEBIT_HINT_WORDS ==
    <<"card purchase", "pos purchase", "debit card", "withdrawal", "atm withdrawal",
      "atm withdrl", "atm", "cash withdrawal", "cash advance", "payment", "bill pay",
      "auto pay", "autopay", "ach debit", "ach withdrawal", "ach withdrl",
      "recurring card purchase", "subscription", "online transfer to", "transfer to",
      "zelle to", "venmo cashout", "venmo payment", "paypal inst xfer",
      "paypal inst transfer", "paypal inst xfer", "paypal debit", "doordash", "uber",
      "lyft", "grubhub", "postmates", "ubereats", "instacart", "fee", "service charge",
      "maintenance fee", "overdraft fee", "late fee", "nsf fee", "interest charged",
      "finance charge", "charge", "purchase", "preauth", "authorization">>

CREDIT_HINT_WORDS ==
    <<"deposit", "direct dep", "directdep", "directdeposit", "direct deposit", "payroll",
      "salary", "wages", "employer", "refund", "rebate", "reversal", "returned item",
      "ach credit", "ach deposit", "ach cr", "credit", "cr ", " interest paid",
      "interest payment", "dividend", "cashback", "cash back", "reward",
      "real time transfer recd from", "transfer from", "online transfer from",
      "zelle from", "venmo payment received", "venmo cashin", "paypal transfer",
      "paypal cashout from">>

\* DirectionContext.normalized
NormalizedDescription(description) == JoinSplit(Lower(description))

\* _parse_amount_core: NotANumber stands for the ValueError it raises
ParseAmountCore(raw) ==
    LET s0 == Strip(raw)
        paren == StartsWith(s0, "(") /\ EndsWith(s0, ")")
        s1 == IF paren THEN Strip(SubSeq(s0, 2, Len(s0) - 1)) ELSE s0
        plus == StartsWith(s1, "+")
        minus == ~plus /\ StartsWith(s1, "-")
        s2 == IF plus \/ minus THEN Strip(SubSeq(s1, 2, Len(s1))) ELSE s1
        s3 == RemoveChar(s2, ",")
        n == IF s3 = "" THEN NotANumber ELSE NumberOf(s3)
    IN  IF ~n.ok THEN NotANumber
        ELSE IF paren \/ minus THEN Num(0 - n.v) ELSE n

RECURSIVE ScoreFrom(_, _, _)
ScoreFrom(text, keywords, i) ==
    IF i > Len(keywords) THEN 0
    ELSE (IF Contains(text, keywords[i]) THEN 1 ELSE 0) + ScoreFrom(text, keywords, i + 1)

\* _score_keywords
ScoreKeywords(text, keywords) == ScoreFrom(Lower(text), keywords, 1)

\* mutant: the balance delta consulted before the keyword scores
InferDirectionSignByBalance(amount_raw, description, hasBalances, balance_before, balance_after) ==
    LET s == Strip(amount_raw)
        text == NormalizedDescription(description)
    IN  IF StartsWith(s, "-") THEN -1
        ELSE IF StartsWith(s, "+") \/ (StartsWith(s, "(") /\ EndsWith(s, ")")) THEN 1
        ELSE IF hasBalances /\ balance_after > balance_before THEN 1
        ELSE IF hasBalances /\ balance_after < balance_before THEN -1
        ELSE IF ScoreKeywords(text, CREDIT_HINT_WORDS) > ScoreKeywords(text, DEBIT_HINT_WORDS)
        THEN 1
        ELSE -1

\* infer_direction_sign; hasBalances is "both balances are not None"
InferDirectionSign(amount_raw, description, hasBalances, balance_before, balance_after) ==
    LET s == Strip(amount_raw)
        explicit_negative == StartsWith(s, "-")
        explicit_positive == StartsWith(s, "+") \/ (StartsWith(s, "(") /\ EndsWith(s, ")"))
        text == NormalizedDescription(description)
        debit_score == ScoreKeywords(text, DEBIT_HINT_WORDS)
        credit_score == ScoreKeywords(text, CREDIT_HINT_WORDS)
    IN  IF explicit_negative /\ ~explicit_positive THEN -1
        ELSE IF explicit_positive /\ ~explicit_negative THEN 1
        ELSE IF debit_score > credit_score THEN -1
        ELSE IF credit_score > debit_score THEN 1
        ELSE IF hasBalances /\ balance_after > balance_before THEN 1
        ELSE IF hasBalances /\ balance_after < balance_before THEN -1
        ELSE -1

Abs(x) == IF x < 0 THEN 0 - x ELSE x

\* direction_rules.parse_signed_amount; NotANumber stands for the ValueError
\* that _parse_amount_core raises through it
RulesParseSignedAmount(raw, context, hasBalances, balance_before, balance_after) ==
    LET core == ParseAmountCore(raw)
    IN  IF ~core.ok THEN NotANumber
        ELSE Num(InferDirectionSign(raw, context, hasBalances, balance_before, balance_after)
                   * Abs(core.v))

-----------------------------------------------------------------------------
(* The Transaction table and the import bridge:                            *)
(* models.Transaction, ocr_import_helpers.import_ocr_rows.                 *)

\* a row of models.Transaction; id is the position in db, linked is
\* linked_transaction_id with 0 for NULL
Transaction(date, source, account, direction, amount, merchant, description, category, notes) ==
    [date |-> date, source_system |-> source, account_name |-> account,
     direction |-> direction, amount |-> amount, merchant |-> merchant,
     description |-> description, category |-> category, notes |-> notes,
     is_transfer |-> FALSE, linked |-> 0]

\* Python: x or default, for strings ("" and None are both falsy)
OrDefault(x, default) == IF x = "" THEN default ELSE x

\* the fields import_ocr_rows reads from a raw row dict, normalised
\* (lines 78-93); Date NoDate is a row _normalize_date maps to None
NormalizeRow(raw, default_source, default_account) ==
    [date |-> raw.Date,
     amount |-> raw.Amount,
     merchant |-> Strip(raw.Merchant),
     source |-> Strip(OrDefault(raw.Source, default_source)),
     account |-> Strip(OrDefault(raw.Account, default_account)),
     direction |-> Lower(Strip(OrDefault(raw.Direction, "debit"))),
     description |-> Strip(raw.Description),
     category |-> Strip(raw.Category),
     notes |-> Strip(raw.Notes)]

\* mutant: the existence query without its is_transfer filter
ExistingRowAnyTransfer(d, r) ==
    \E i \in 1..Len(d) :
        /\ d[i].date = r.date
        /\ d[i].amount = r.amount
        /\ d[i].merchant = r.merchant
        /\ d[i].account_name = r.account
        /\ d[i].source_system = r.source

\* mutant: no existence check at all
ExistingRowNever(d, r) == FALSE

\* the existence query of lines 96-109 (autoflush makes the rows added
\* earlier in the same call visible to it)
ExistingRow(d, r) ==
    \E i \in 1..Len(d) :
        /\ d[i].date = r.date
        /\ d[i].amount = r.amount
        /\ d[i].merchant = r.merchant
        /\ d[i].account_name = r.account
        /\ d[i].source_system = r.source
        /\ d[i].is_transfer = FALSE

\* the loop of import_ocr_rows from row i on; returns the table
RECURSIVE ImportFrom(_, _, _, _, _)
ImportFrom(d, rows, i, default_source, default_account) ==
    IF i > Len(rows) THEN d
    ELSE LET r == NormalizeRow(rows[i], default_source, default_account)
         IN  IF r.date = NoDate \/ ExistingRow(d, r)
             THEN ImportFrom(d, rows, i + 1, default_source, default_account)
             ELSE ImportFrom(
                      Append(d, Transaction(r.date, r.source, r.account, r.direction,
                                            r.amount, r.merchant, r.description,
                                            r.category, r.notes)),
                      rows, i + 1, default_source, default_account)

\* import_ocr_rows(rows, default_source, default_account): the table after
\* the commit; inserted = rows added, skipped = the rest
import_ocr_rows(d, rows, default_source, default_account) ==
    ImportFrom(d, rows, 1, default_source, default_account)

-----------------------------------------------------------------------------
(* dedupe_transactions.py                                                  *)

SameKey(a, b) ==
    /\ a.date = b.date
    /\ a.amount = b.amount
    /\ a.merchant = b.merchant
    /\ a.account_name = b.account_name
    /\ a.source_system = b.source_system

\* notes after a marker is appended (lines 73-77, 132-136)
TagNotes(notes, tag) ==
    IF notes = "" THEN tag
    ELSE IF Contains(notes, tag) THEN notes
    ELSE notes \o " " \o tag

\* Pass A: in every group of rows sharing the five key fields the
\* lowest id is kept and every other row not yet a transfer is marked
mark_true_duplicates(d) ==
    [i \in 1..Len(d) |->
        IF (\E j \in 1..(i - 1) : SameKey(d[j], d[i])) /\ ~d[i].is_transfer
        THEN [d[i] EXCEPT !.is_transfer = TRUE,
                          !.notes = TagNotes(d[i].notes, "[AUTO_DUPLICATE]")]
        ELSE d[i]]

IsScreenshotSource(source) == Lower(Strip(source)) = "screenshot ocr"

\* Pass B: a Screenshot OCR row with a (date, amount, merchant) twin from
\* another source is marked
mark_screenshot_clones(d) ==
    [i \in 1..Len(d) |->
        IF /\ Lower(d[i].source_system) = "screenshot ocr"
           /\ \E j \in 1..Len(d) :
                 /\ d[j].date = d[i].date
                 /\ d[j].amount = d[i].amount
                 /\ d[j].merchant = d[i].merchant
                 /\ ~IsScreenshotSource(d[j].source_system)
           /\ ~d[i].is_transfer
        THEN [d[i] EXCEPT !.is_transfer = TRUE,
                          !.notes = TagNotes(d[i].notes, "[AUTO_SSHOT_DUP]")]
        ELSE d[i]]

-----------------------------------------------------------------------------
(* reconcile_transfers.py                                                  *)

normalize_str(s) == Upper(Strip(s))

\* Transaction has no raw_description column: get_raw_description is ""
looks_like_paypal(merchant) ==
    LET s == normalize_str(merchant) \o " " IN Contains(s, "PAYPAL") \/ Contains(s, "PP*")

looks_like_venmo(merchant) == Contains(normalize_str(merchant) \o " ", "VENMO")

TransferKeywords ==
    <<"TRANSFER", "XFER", "ONLINE TRANSFER", "ONLINE XFER", "ACH TRANSFER",
      "ACH CREDIT", "ACH DEBIT", "ZELLE">>

looks_like_transfer_description(merchant) ==
    AnyWordIn(normalize_str(merchant) \o " ", TransferKeywords)

is_paypal(tx) ==
    \/ Contains(normalize_str(tx.source_system), "PAYPAL")
    \/ Contains(normalize_str(tx.account_name), "PAYPAL")
    \/ looks_like_paypal(normalize_str(tx.merchant))

is_venmo(tx) ==
    \/ Contains(normalize_str(tx.source_system), "VENMO")
    \/ Contains(normalize_str(tx.account_name), "VENMO")
    \/ looks_like_venmo(normalize_str(tx.merchant))

looks_like_transfer_pair(t1, t2) ==
    /\ t1.account_name # t2.account_name
    /\ t1.amount * t2.amount < 0
    /\ Abs(t1.amount) = Abs(t2.amount)
    /\ Abs(t2.date - t1.date) <= 2
    /\ \/ looks_like_transfer_description(t1.merchant)
       \/ looks_like_transfer_description(t2.merchant)
       \/ is_paypal(t1) \/ is_paypal(t2)
       \/ is_venmo(t1) \/ is_venmo(t2)

\* pick_primary_vs_mirror on ids a, b: TRUE when a is the primary
FirstIsPrimary(t1, t2) ==
    IF is_venmo(t1) /\ ~is_venmo(t2) THEN TRUE
    ELSE IF is_venmo(t2) /\ ~is_venmo(t1) THEN FALSE
    ELSE IF is_paypal(t1) /\ ~is_paypal(t2) THEN TRUE
    ELSE IF is_paypal(t2) /\ ~is_paypal(t1) THEN FALSE
    ELSE TRUE

\* ORDER BY date, id
Before(d, a, b) == d[a].date < d[b].date \/ (d[a].date = d[b].date /\ a < b)

\* the ids in (date, id) order
RECURSIVE SortedIds(_, _)
SortedIds(d, ids) ==
    IF ids = {} THEN <<>>
    ELSE LET m == CHOOSE a \in ids : \A b \in ids \ {a} : Before(d, a, b)
         IN  <<m>> \o SortedIds(d, ids \ {m})

\* the body of the inner loop (lines 229-253) for the pair (a, b)
ReconcilePair(d, a, b) ==
    IF ~looks_like_transfer_pair(d[a], d[b]) THEN d
    ELSE IF /\ d[a].is_transfer /\ d[a].linked # 0
            /\ d[b].is_transfer /\ d[b].linked # 0 THEN d
    ELSE LET primary == IF FirstIsPrimary(d[a], d[b]) THEN a ELSE b
             mirror == IF primary = a THEN b ELSE a
         IN  [d EXCEPT ![mirror].is_transfer = TRUE,
                       ![mirror].linked = primary,
                       ![primary].linked = mirror]

\* the nested loops over the (date, id)-sorted rows; rows of different
\* absolute amount lie in different by_amount groups and never pair
RECURSIVE ReconcileFrom(_, _, _, _)
ReconcileFrom(d, order, i, j) ==
    IF i > Len(order) THEN d
    ELSE IF j > Len(order) THEN ReconcileFrom(d, order, i + 1, i + 2)
    ELSE ReconcileFrom(ReconcilePair(d, order[i], order[j]), order, i, j + 1)

reconcile_internal_transfers(d) ==
    ReconcileFrom(d, SortedIds(d, 1..Len(d)), 1, 2)

-----------------------------------------------------------------------------
(* Generic OCR text parser: ocr_pipeline._normalize_row and                *)
(* _parse_ocr_text_file.  A text file is a name and its lines; the only    *)
(* whitespace of the model's lines is the blank.                           *)

\* index of the first blank of s, Len(s) + 1 if it has none
FirstBlank(s) ==
    IF \E i \in 1..Len(s) : Char(s, i) = " "
    THEN CHOOSE i \in 1..Len(s) : Char(s, i) = " " /\ \A j \in 1..(i - 1) : Char(s, j) # " "
    ELSE Len(s) + 1

\* the first token of a string that starts with one, and what follows it
FirstToken(t, n) == SubSeq(t, 1, n - 1)
AfterToken(t, n) == SubSeq(t, n, Len(t))

\* Python: s.split()
RECURSIVE SplitStripped(_)
SplitStripped(t) ==
    IF Len(t) = 0 THEN <<>>
    ELSE <<FirstToken(t, FirstBlank(t))>>
           \o SplitStripped(LStrip(AfterToken(t, FirstBlank(t))))

Split(s) == SplitStripped(LStrip(s))

\* Python: " ".join(tokens)
RECURSIVE Join(_)
Join(tokens) ==
    IF Len(tokens) = 0 THEN ""
    ELSE IF Len(tokens) = 1 THEN tokens[1]
    ELSE tokens[1] \o " " \o Join(Tail(tokens))

\* Python: s.split(c) for a one-character c
RECURSIVE SplitOn(_, _)
SplitOn(s, c) ==
    IF \E i \in 1..Len(s) : Char(s, i) = c
    THEN LET p == CHOOSE i \in 1..Len(s) :
                      Char(s, i) = c /\ \A j \in 1..(i - 1) : Char(s, j) # c
         IN  <<SubSeq(s, 1, p - 1)>> \o SplitOn(SubSeq(s, p + 1, Len(s)), c)
    ELSE <<s>>

\* date_re, first alternative: ^\d{4}-\d{2}-\d{2}$
IsoDateRe(t) ==
    /\ Len(t) = 10
    /\ AllDigits(SubSeq(t, 1, 4)) /\ Char(t, 5) = "-"
    /\ AllDigits(SubSeq(t, 6, 7)) /\ Char(t, 8) = "-"
    /\ AllDigits(SubSeq(t, 9, 10))

\* date_re, second alternative: ^\d{1,2}/\d{1,2}/\d{2,4}$
SlashDateParts(p) ==
    /\ Len(p) = 3
    /\ Len(p[1]) \in 1..2 /\ AllDigits(p[1])
    /\ Len(p[2]) \in 1..2 /\ AllDigits(p[2])
    /\ Len(p[3]) \in 2..4 /\ AllDigits(p[3])

SlashDateRe(t) == SlashDateParts(SplitOn(t, "/"))

date_re(t) == IsoDateRe(t) \/ SlashDateRe(t)

\* amount_re: ^[-+]?\$?\d[\d,]*\.\d{2}$
AmountBody(b) ==
    /\ Len(b) >= 4
    /\ IsDigit(Char(b, 1))
    /\ \A i \in 2..(Len(b) - 3) : IsDigit(Char(b, i)) \/ Char(b, i) = ","
    /\ Char(b, Len(b) - 2) = "."
    /\ IsDigit(Char(b, Len(b) - 1)) /\ IsDigit(Char(b, Len(b)))

DropDollar(a) == IF StartsWith(a, "$") THEN SubSeq(a, 2, Len(a)) ELSE a

DropSign(t) ==
    IF Len(t) > 0 /\ Char(t, 1) \in {"-", "+"} THEN SubSeq(t, 2, Len(t)) ELSE t

amount_re(t) == AmountBody(DropDollar(DropSign(t)))

\* dates are proleptic Gregorian ordinals (date.toordinal()); NoDate stands
\* for a date that could not be read
IsLeap(y) == (y % 4 = 0 /\ y % 100 # 0) \/ y % 400 = 0

DaysInMonth(y, m) ==
    IF m = 2 THEN (IF IsLeap(y) THEN 29 ELSE 28)
    ELSE IF m \in {4, 6, 9, 11} THEN 30 ELSE 31

RECURSIVE DaysBeforeMonth(_, _)
DaysBeforeMonth(y, m) ==
    IF m <= 1 THEN 0 ELSE DaysBeforeMonth(y, m - 1) + DaysInMonth(y, m - 1)

Ordinal(y, m, d) ==
    365 * (y - 1) + ((y - 1) \div 4) - ((y - 1) \div 100) + ((y - 1) \div 400)
      + DaysBeforeMonth(y, m) + d

\* datetime.strptime on numeric fields: the ordinal, or NoDate for ValueError
DateOf(y, m, d) ==
    IF y \in 1..9999 /\ m \in 1..12 /\ d \in 1..DaysInMonth(y, m)
    THEN Ordinal(y, m, d)
    ELSE NoDate

\* lines 341-350 on month, day, year = raw_date.split("/"): a two-digit
\* year gets the prefix "20"; %Y wants four digits
SlashDateOf(p) ==
    IF Len(p[3]) = 2 THEN DateOf(2000 + DigitsVal(p[3]), DigitsVal(p[1]), DigitsVal(p[2]))
    ELSE IF Len(p[3]) = 4 THEN DateOf(DigitsVal(p[3]), DigitsVal(p[1]), DigitsVal(p[2]))
    ELSE NoDate

\* lines 339-350: the date of a token date_re matched, NoDate on exception
ParseDateToken(raw_date) ==
    IF Contains(raw_date, "-")
    THEN DateOf(DigitsVal(SubSeq(raw_date, 1, 4)), DigitsVal(SubSeq(raw_date, 6, 7)),
                DigitsVal(SubSeq(raw_date, 9, 10)))
    ELSE SlashDateOf(SplitOn(raw_date, "/"))

\* index of the first token date_re matches, 0 for None
FirstDateIdx(tokens) ==
    IF \E i \in 1..Len(tokens) : date_re(tokens[i])
    THEN CHOOSE i \in 1..Len(tokens) :
             date_re(tokens[i]) /\ \A j \in 1..(i - 1) : ~date_re(tokens[j])
    ELSE 0

\* mutant: the first amount token instead of the last
FirstAmountIdx(tokens) ==
    IF \E i \in 1..Len(tokens) : amount_re(tokens[i])
    THEN CHOOSE i \in 1..Len(tokens) :
             amount_re(tokens[i]) /\ \A j \in 1..(i - 1) : ~amount_re(tokens[j])
    ELSE 0

\* index of the last token amount_re matches, 0 for None
LastAmountIdx(tokens) ==
    IF \E i \in 1..Len(tokens) : amount_re(tokens[i])
    THEN CHOOSE i \in 1..Len(tokens) :
             amount_re(tokens[i]) /\ \A j \in (i + 1)..Len(tokens) : ~amount_re(tokens[j])
    ELSE 0

transfer_keywords ==
    <<"TRANSFER TO", "XFER TO", "TO SAVINGS", "TO CHECKING", "REAL TIME TRANSFER RCD TO",
      "PAYMENT TO", "PAYPAL TRANSFER TO", "VENMO TRANSFER TO", "ZELLE TO", "CASH APP TO">>

AccountSuffixes == <<"0205", "5072", "9765", "3838", "9383">>

\* the account inferred from a four-digit suffix, "" if none is in the text
SuffixAccount(text) ==
    IF \E i \in 1..Len(AccountSuffixes) : Contains(text, AccountSuffixes[i])
    THEN "Acct *" \o AccountSuffixes[CHOOSE i \in 1..Len(AccountSuffixes) :
                         /\ Contains(text, AccountSuffixes[i])
                         /\ \A j \in 1..(i - 1) : ~Contains(text, AccountSuffixes[j])]
    ELSE ""

\* _detect_source_and_account on text = f"{basename} {line}".upper()
DetectIn(text, default_source) ==
    LET hit == IF Contains(text, "VENMO")
               THEN <<"Venmo", IF Contains(text, "WALLET") THEN "Venmo Wallet" ELSE "">>
               ELSE IF Contains(text, "PAYPAL") \/ Contains(text, "PP*")
               THEN <<"PayPal", IF Contains(text, "ART") THEN "PayPal Onojk123 Art" ELSE "">>
               ELSE IF Contains(text, "BANK OF AMERICA") \/ Contains(text, "B OF A")
                       \/ Contains(text, "ADV PLUS")
               THEN <<"Bank of America",
                      IF Contains(text, "0205") THEN "Adv Plus 0205" ELSE "">>
               ELSE IF Contains(text, "CHASE") \/ Contains(text, "PREMIER PLUS")
               THEN <<"Chase", IF Contains(text, "9765") THEN "Premier Plus Ckg 9765" ELSE "">>
               ELSE <<default_source, "">>
    IN  [source |-> hit[1],
         account |-> IF hit[2] = "" THEN SuffixAccount(text) ELSE hit[2]]

_detect_source_and_account(line, path, default_source) ==
    DetectIn(Upper(path \o " " \o line), default_source)

\* the rules of _guess_category (the definition in force, line 1824), in
\* the dict's order
CategoryRules ==
    <<<<"Groceries", <<"FOOD4LESS", "RALPHS", "VONS", "ALBERTSONS", "TRADER JOE", "WHOLEFDS",
                       "COSTCO", "WALMART", "TARGET", "SPROUTS", "SMART & FINAL">>>>,
      <<"Dining", <<"MCDONALD", "STARBUCKS", "CHIPOTLE", "SUBWAY", "IN N OUT", "TACOBELL",
                    "DOORDASH", "UBEREATS", "GRUBHUB">>>>,
      <<"Bills/Utilities", <<"VERIZON", "AT&T", "T-MOBILE", "SPECTRUM", "COMCAST", "SDGE",
                             "PG&E", "SOUTHERN CALIFORNIA EDISON">>>>,
      <<"Transportation", <<"UBER", "LYFT", "SHELL", "CHEVRON", "ARCO", "GAS", "PARKING">>>>,
      <<"Entertainment", <<"NETFLIX", "SPOTIFY", "HULU", "DISNEY+", "YOUTUBE", "APPLE.COM">>>>,
      <<"Shopping", <<"AMAZON", "AMZN", "TARGET.COM", "BESTBUY", "HOMEDEPOT">>>>,
      <<"Health", <<"CVS", "WALGREENS", "RITE AID", "KAISER">>>>,
      <<"Income", <<"PAYROLL", "DIRECT DEP", "DEPOSIT", "REFUND">>>>,
      <<"Transfers", <<"TRANSFER", "ZELLE", "VENMO", "PAYPAL">>>>>>

CategoryIn(d) ==
    IF \E i \in 1..Len(CategoryRules) : AnyWordIn(d, CategoryRules[i][2])
    THEN CategoryRules[CHOOSE i \in 1..Len(CategoryRules) :
             /\ AnyWordIn(d, CategoryRules[i][2])
             /\ \A j \in 1..(i - 1) : ~AnyWordIn(d, CategoryRules[j][2])][1]
    ELSE "Uncategorized"

_guess_category(description) ==
    IF description = "" THEN "Uncategorized" ELSE CategoryIn(Upper(description))

\* lines 358-396: the row built from the date, the description and the
\* signed amount
GenericRow(date, description, amount, upper_desc, detected, path) ==
    [Date |-> date, Amount |-> amount,
     Direction |-> IF AnyWordIn(upper_desc, transfer_keywords) THEN "transfer"
                   ELSE IF amount < 0 THEN "debit" ELSE "credit",
     Source |-> detected.source, Account |-> detected.account,
     Merchant |-> description, Description |-> description,
     Category |-> _guess_category(description),
     Notes |-> "from " \o path]

\* lines 339-356
NormalizeDated(tokens, amount_idx, date, description, line, default_source, path) ==
    IF date = NoDate \/ description = "" THEN <<>>
    ELSE <<GenericRow(date, description,
                      PipelineParseSignedAmount(tokens[amount_idx], description),
                      Upper(description),
                      _detect_source_and_account(line, path, default_source), path)>>

\* lines 319-337
NormalizeAt(tokens, date_idx, amount_idx, line, default_source, path) ==
    IF date_idx = 0 \/ amount_idx = 0 \/ amount_idx <= date_idx THEN <<>>
    ELSE NormalizeDated(tokens, amount_idx, ParseDateToken(tokens[date_idx]),
                        Strip(Join(SubSeq(tokens, date_idx + 1, amount_idx - 1))),
                        line, default_source, path)

\* lines 305-311
NormalizeTokens(tokens, line, default_source, path) ==
    IF Len(tokens) < 3 THEN <<>>
    ELSE NormalizeAt(tokens, FirstDateIdx(tokens), LastAmountIdx(tokens),
                     line, default_source, path)

\* _normalize_row(line, default_source, path): <<>> for None, else <<row>>;
\* path stands for its basename
_normalize_row(line, default_source, path) ==
    NormalizeTokens(Split(line), line, default_source, path)

\* the \.\d{2} that ends a match of AMOUNT_RE, after any ,\d{3} groups
RECURSIVE GroupsThenCents(_, _)
GroupsThenCents(s, p) ==
    \/ /\ p + 2 <= Len(s)
       /\ Char(s, p) = "."
       /\ IsDigit(Char(s, p + 1)) /\ IsDigit(Char(s, p + 2))
    \/ /\ p + 3 <= Len(s)
       /\ Char(s, p) = ","
       /\ IsDigit(Char(s, p + 1)) /\ IsDigit(Char(s, p + 2)) /\ IsDigit(Char(s, p + 3))
       /\ GroupsThenCents(s, p + 4)

\* AMOUNT_RE.search(line) is not None, for the pattern bound to the name
\* when _parse_ocr_text_file runs (line 1689):
\* (?<![\d.])-?\d{1,3}(?:,\d{3})*\.\d{2}
AMOUNT_RE(line) ==
    \E i \in 1..Len(line) : \E k \in 1..3 :
        /\ i = 1 \/ ~(IsDigit(Char(line, i - 1)) \/ Char(line, i - 1) = ".")
        /\ i + k - 1 <= Len(line)
        /\ AllDigits(SubSeq(line, i, i + k - 1))
        /\ GroupsThenCents(line, i + k)

RejectedLine(path, idx, line) ==
    [source_file |-> path, line_no |-> idx, raw_text |-> line,
     reason |-> "no_generic_match"]

NoRows == [rows |-> <<>>, rejected |-> <<>>, per |-> <<>>]

\* one pass of the loop of _parse_ocr_text_file over line idx, row being
\* what _normalize_row returned for it; per keeps each line's outcome
ParseLine(acc, row, idx, line, path, collect_rejected) ==
    IF Len(row) > 0
    THEN [acc EXCEPT !.rows = @ \o row, !.per = Append(@, [out |-> "row", row |-> row])]
    ELSE IF collect_rejected /\ Len(Strip(line)) > 0 /\ AMOUNT_RE(line)
    THEN [acc EXCEPT !.rejected = Append(@, RejectedLine(path, idx, line)),
                     !.per = Append(@, [out |-> "rejected", row |-> <<>>])]
    ELSE [acc EXCEPT !.per = Append(@, [out |-> "none", row |-> <<>>])]

RECURSIVE ParseLinesFrom(_, _, _, _, _, _)
ParseLinesFrom(acc, lines, idx, path, default_source, collect_rejected) ==
    IF idx > Len(lines) THEN acc
    ELSE ParseLinesFrom(ParseLine(acc, _normalize_row(lines[idx], default_source, path),
                                  idx, lines[idx], path, collect_rejected),
                        lines, idx + 1, path, default_source, collect_rejected)

\* _parse_ocr_text_file(path, default_source, collect_rejected): the rows
\* and, when collecting, the rejected lines
_parse_ocr_text_file(file, default_source, collect_rejected) ==
    ParseLinesFrom(NoRows, file.lines, 1, file.name, default_source, collect_rejected)

\* process_statement_files(file_paths=[path], collect_rejected)
process_statement_files(file, collect_rejected) ==
    _parse_ocr_text_file(file, "Statement OCR", collect_rejected)

-----------------------------------------------------------------------------
(* Chase statement layout: ocr_pipeline._extract_statement_years,          *)
(* _iter_transaction_lines and _parse_chase_transaction_detail.  A year of *)
(* 0 stands for None (both are false in the code's "or" chains).           *)

IsLetter(c) ==
    \E i \in 1..26 : Char(LowerLetters, i) = c \/ Char(UpperLetters, i) = c

\* \d{1,2},
DayComma(t) == Len(t) \in 2..3 /\ AllDigits(SubSeq(t, 1, Len(t) - 1)) /\ Char(t, Len(t)) = ","

\* the statement-period pattern matched from token i of a line:
\* ([A-Za-z]+)\s+\d{1,2},\s+(\d{4})\s+through\s+([A-Za-z]+)\s+\d{1,2},\s+(\d{4})
PeriodAt(tokens, i) ==
    /\ i + 6 <= Len(tokens)
    /\ IsLetter(Char(tokens[i], Len(tokens[i])))
    /\ DayComma(tokens[i + 1])
    /\ Len(tokens[i + 2]) = 4 /\ AllDigits(tokens[i + 2])
    /\ tokens[i + 3] = "through"
    /\ \A k \in 1..Len(tokens[i + 4]) : IsLetter(Char(tokens[i + 4], k))
    /\ DayComma(tokens[i + 5])
    /\ Len(tokens[i + 6]) >= 4 /\ AllDigits(SubSeq(tokens[i + 6], 1, 4))

HasPeriod(tokens) == \E i \in 1..Len(tokens) : PeriodAt(tokens, i)

\* the years of the leftmost match in a line
PeriodYears(tokens) ==
    LET i == CHOOSE k \in 1..Len(tokens) :
                 PeriodAt(tokens, k) /\ \A j \in 1..(k - 1) : ~PeriodAt(tokens, j)
    IN  <<DigitsVal(tokens[i + 2]), DigitsVal(SubSeq(tokens[i + 6], 1, 4))>>

\* _extract_statement_years(txt): (start_year, end_year) of the first line
\* with a statement period, (None, None) if there is none
RECURSIVE ExtractYearsFrom(_, _)
ExtractYearsFrom(lines, i) ==
    IF i > Len(lines) THEN <<0, 0>>
    ELSE IF HasPeriod(Split(lines[i])) THEN PeriodYears(Split(lines[i]))
    ELSE ExtractYearsFrom(lines, i + 1)

_extract_statement_years(lines) == ExtractYearsFrom(lines, 1)

\* _iter_transaction_lines(txt): the lines inside the block, each given by
\* its index in the text
RECURSIVE IterTransactionLines(_, _, _)
IterTransactionLines(lines, i, in_block) ==
    IF i > Len(lines) THEN <<>>
    ELSE IF Contains(lines[i], "*start*transaction detail")
    THEN IterTransactionLines(lines, i + 1, TRUE)
    ELSE IF in_block /\ StartsWith(Strip(lines[i]), "*end*") THEN <<>>
    ELSE IF in_block THEN <<i>> \o IterTransactionLines(lines, i + 1, TRUE)
    ELSE IterTransactionLines(lines, i + 1, FALSE)

_iter_transaction_lines(lines) == IterTransactionLines(lines, 1, FALSE)

\* -?\d[\d,]*\.\d{2} on a whole token
ChaseAmountRe(t) == AmountBody(IF StartsWith(t, "-") THEN SubSeq(t, 2, Len(t)) ELSE t)

\* (\d{2})/(\d{2}) on a whole token
MonthDayRe(t) ==
    Len(t) = 5 /\ AllDigits(SubSeq(t, 1, 2)) /\ Char(t, 3) = "/" /\ AllDigits(SubSeq(t, 4, 5))

\* line_re: ^\s*(\d{2})/(\d{2})\s+(.+?)\s+(amount)\s+(balance)\s*$
line_re(tokens) ==
    /\ Len(tokens) >= 4
    /\ MonthDayRe(tokens[1])
    /\ ChaseAmountRe(tokens[Len(tokens) - 1])
    /\ ChaseAmountRe(tokens[Len(tokens)])

\* index of the last blank of s, 0 if it has none
LastBlank(s) ==
    IF \E i \in 1..Len(s) : Char(s, i) = " "
    THEN CHOOSE i \in 1..Len(s) : Char(s, i) = " " /\ \A j \in (i + 1)..Len(s) : Char(s, j) # " "
    ELSE 0

DropLastToken(s) == RStrip(SubSeq(s, 1, LastBlank(s)))
DropFirstToken(s) == LStrip(SubSeq(s, FirstBlank(s), Len(s)))

\* group 3 of line_re on a matching line: the text between the date and
\* the amount, inner blanks kept
DescGroup(line) == DropFirstToken(DropLastToken(DropLastToken(Strip(line))))

\* f"{year:04d}-{month:02d}-{day:02d}" as the date it writes; a string
\* that is no calendar date is NoDate to whoever reads it
IsoDate(year, month, day) == DateOf(year, month, day)

\* Python: a or b on years
OrYear(a, b) == IF a # 0 THEN a ELSE b

NoMonth == -1

ChaseDetailRow(date, amt_signed, desc_clean, category, note) ==
    [Date |-> date, Amount |-> amt_signed,
     Direction |-> IF amt_signed < 0 THEN "debit" ELSE "credit",
     Source |-> "Statement OCR", Account |-> "",
     Merchant |-> desc_clean, Description |-> desc_clean,
     Category |-> category, Notes |-> note]

\* lines 1052-1057: the year in force after a line with this month
RolledYear(current_year, prev_month, month, start_year, end_year) ==
    IF prev_month # NoMonth /\ month < prev_month /\ end_year # 0
       /\ current_year = start_year
    THEN end_year
    ELSE current_year

\* lines 1040-1081 for a line that line_re matches; origin keeps, for each
\* row, the index of the line it was read from
DetailMatch(acc, idx, tokens, desc, amt_str, cy, start_year, end_year, today, name) ==
    [rows |-> Append(acc.rows,
          ChaseDetailRow(
              IsoDate(OrYear(cy, OrYear(end_year, OrYear(start_year, today))),
                      DigitsVal(SubSeq(tokens[1], 1, 2)), DigitsVal(SubSeq(tokens[1], 4, 5))),
              PipelineParseSignedAmount(amt_str, desc \o " " \o amt_str),
              Join(Split(desc)), "", "from " \o name)),
     origin |-> Append(acc.origin, idx),
     current_year |-> cy,
     prev_month |-> DigitsVal(SubSeq(tokens[1], 1, 2))]

\* one pass of the loop over the block's lines
DetailLine(acc, idx, line, tokens, start_year, end_year, today, name) ==
    IF ~line_re(tokens) THEN acc
    ELSE DetailMatch(acc, idx, tokens, DescGroup(line), tokens[Len(tokens) - 1],
                     RolledYear(OrYear(acc.current_year, OrYear(end_year, start_year)),
                                acc.prev_month, DigitsVal(SubSeq(tokens[1], 1, 2)),
                                start_year, end_year),
                     start_year, end_year, today, name)

RECURSIVE DetailFrom(_, _, _, _, _, _, _, _)
DetailFrom(acc, lines, block, i, start_year, end_year, today, name) ==
    IF i > Len(block) THEN acc
    ELSE DetailFrom(DetailLine(acc, block[i], lines[block[i]], Split(lines[block[i]]),
                               start_year, end_year, today, name),
                    lines, block, i + 1, start_year, end_year, today, name)

\* index after the blanks that start at p
RECURSIVE SkipBlanks(_, _)
SkipBlanks(s, p) == IF p <= Len(s) /\ Char(s, p) = " " THEN SkipBlanks(s, p + 1) ELSE p

\* index after the digits that start at p
RECURSIVE SkipDigits(_, _)
SkipDigits(s, p) == IF p <= Len(s) /\ IsDigit(Char(s, p)) THEN SkipDigits(s, p + 1) ELSE p

\* index after the non-blank characters that start at p
RECURSIVE SkipToken(_, _)
SkipToken(s, p) == IF p <= Len(s) /\ Char(s, p) # " " THEN SkipToken(s, p + 1) ELSE p

\* the literal w at p, followed by at least one blank
LitThenBlank(s, p, w) ==
    /\ p + Len(w) <= Len(s)
    /\ SubSeq(s, p, p + Len(w) - 1) = w
    /\ Char(s, p + Len(w)) = " "

\* some prefix of t matches -?\d[\d,]*\.\d{2}
AmountPrefix(t) == \E k \in 1..Len(t) : ChaseAmountRe(SubSeq(t, 1, k))

PayrollHead == "Millennium Healt"
PayrollKind == "Direct Dep"
PayrollId == "PPD ID:"

\* index of the amount token of a payroll_re match that starts at p, 0 if
\* payroll_re does not match there:
\* (\d{2})/(\d{2})\s+Millennium Healt\s+Direct Dep\s+PPD ID:\s*\d+\s+(amt)\s+(bal)
PayrollAmountAt(s, p) ==
    IF ~(p + 5 <= Len(s) /\ MonthDayRe(SubSeq(s, p, p + 4)) /\ Char(s, p + 5) = " ")
    THEN 0
    ELSE LET a == SkipBlanks(s, p + 5)
         IN  IF ~LitThenBlank(s, a, PayrollHead) THEN 0
             ELSE LET b == SkipBlanks(s, a + Len(PayrollHead))
                  IN  IF ~LitThenBlank(s, b, PayrollKind) THEN 0
                      ELSE LET c == SkipBlanks(s, b + Len(PayrollKind))
                           IN  IF ~(c + Len(PayrollId) - 1 <= Len(s)
                                    /\ SubSeq(s, c, c + Len(PayrollId) - 1) = PayrollId)
                               THEN 0
                               ELSE LET d == SkipBlanks(s, c + Len(PayrollId))
                                        e == SkipDigits(s, d)
                                        f == SkipBlanks(s, e)
                                        g == SkipToken(s, f)
                                        h == SkipBlanks(s, g)
                                    IN  IF /\ e > d /\ f > e /\ h > g
                                           /\ ChaseAmountRe(SubSeq(s, f, g - 1))
                                           /\ AmountPrefix(SubSeq(s, h, SkipToken(s, h) - 1))
                                        THEN f
                                        ELSE 0

\* where the payroll_re matches of a line start
PayrollStarts(s) == {p \in 1..Len(s) : PayrollAmountAt(s, p) # 0}

\* the date and amount strings of the matches that start at the given
\* places, left to right
RECURSIVE PayrollAmountsOf(_, _)
PayrollAmountsOf(s, starts) ==
    IF starts = {} THEN <<>>
    ELSE LET p == CHOOSE x \in starts : \A y \in starts : x <= y
         IN  <<[mmdd |-> SubSeq(s, p, p + 4),
                amt_str |-> SubSeq(s, PayrollAmountAt(s, p),
                                   SkipToken(s, PayrollAmountAt(s, p)) - 1)]>>
               \o PayrollAmountsOf(s, starts \ {p})

PayrollAmounts(s) == PayrollAmountsOf(s, PayrollStarts(s))

\* lines 1103-1108
Already(rows, date, amt_signed) ==
    \E i \in 1..Len(rows) :
        /\ rows[i].Date = date
        /\ rows[i].Amount = amt_signed
        /\ Contains(rows[i].Merchant, PayrollHead)

\* lines 1088-1124 for one match found in line idx
PayrollMatch(acc, idx, date, amt_signed, name) ==
    IF Already(acc.rows, date, amt_signed) THEN acc
    ELSE [rows |-> Append(acc.rows,
              ChaseDetailRow(date, amt_signed,
                             "Millennium Healt Direct Dep PPD ID: 9111111103",
                             "Income:Payroll",
                             "from " \o name \o " (payroll line outside detail block)")),
          origin |-> Append(acc.origin, idx)]

RECURSIVE PayrollMatches(_, _, _, _, _, _)
PayrollMatches(acc, idx, ms, k, year, name) ==
    IF k > Len(ms) THEN acc
    ELSE PayrollMatches(
             PayrollMatch(acc, idx,
                          IsoDate(year, DigitsVal(SubSeq(ms[k].mmdd, 1, 2)),
                                  DigitsVal(SubSeq(ms[k].mmdd, 4, 5))),
                          PipelineParseSignedAmount(ms[k].amt_str,
                              "Millennium Healt Direct Dep " \o ms[k].amt_str),
                          name),
             idx, ms, k + 1, year, name)

\* the extra pass (payroll_re.finditer) over every line of the text; the
\* model's matches lie within one line
RECURSIVE PayrollFrom(_, _, _, _, _)
PayrollFrom(acc, lines, i, year, name) ==
    IF i > Len(lines) THEN acc
    ELSE PayrollFrom(PayrollMatches(acc, i, PayrollAmounts(lines[i]), 1, year, name),
                     lines, i + 1, year, name)

\* the two passes, given the statement years
ChaseDetailWith(file, detail, start_year, end_year, today) ==
    PayrollFrom([rows |-> detail.rows, origin |-> detail.origin], file.lines, 1,
                OrYear(detail.current_year, OrYear(end_year, OrYear(start_year, today))),
                file.name)

ChaseDetailYears(file, years, today) ==
    ChaseDetailWith(file,
        DetailFrom([rows |-> <<>>, origin |-> <<>>,
                    current_year |-> OrYear(years[1], years[2]), prev_month |-> NoMonth],
                   file.lines, _iter_transaction_lines(file.lines), 1, years[1], years[2],
                   today, file.name),
        years[1], years[2], today)

\* the rows of _parse_chase_transaction_detail(path) and the lines they
\* were read from, today being date.today().year
ChaseDetail(file, today) ==
    ChaseDetailYears(file, _extract_statement_years(file.lines), today)

\* _parse_chase_transaction_detail(path)
_parse_chase_transaction_detail(file, today) == ChaseDetail(file, today).rows

-----------------------------------------------------------------------------
(* Capital One layout: ocr_pipeline._parse_capone_0728_statement.  today   *)
(* is date.today(), a record of year and month.                            *)

CaponeHeader == "Platinum Card | Platinum Mastercard ending in 0728"

ContainsLine(lines, w) == \E i \in 1..Len(lines) : Contains(lines[i], w)

\* index after the letters that start at p
RECURSIVE SkipLetters(_, _)
SkipLetters(s, p) == IF p <= Len(s) /\ IsLetter(Char(s, p)) THEN SkipLetters(s, p + 1) ELSE p

\* the index after ([A-Za-z]+)\s+(\d{1,2}),\s+ matched from p, 0 if it does
\* not match there
MonthDayAt(s, p) ==
    LET a == SkipLetters(s, p)
        b == SkipBlanks(s, a)
        c == SkipDigits(s, b)
        d == SkipBlanks(s, c + 1)
    IN  IF /\ a > p /\ b > a /\ c - b \in 1..2
           /\ c <= Len(s) /\ Char(s, c) = "," /\ d > c + 1
        THEN d
        ELSE 0

FourDigitsAt(s, p) == p > 0 /\ p + 3 <= Len(s) /\ AllDigits(SubSeq(s, p, p + 3))

\* period_re matched from p:
\* ([A-Za-z]+)\s+(\d{1,2}),\s+(\d{4})\s*-\s*([A-Za-z]+)\s+(\d{1,2}),\s+(\d{4})
CaponePeriodAt(s, p) ==
    LET y1 == MonthDayAt(s, p)
        dash == SkipBlanks(s, y1 + 4)
        m2 == SkipBlanks(s, dash + 1)
        y2 == MonthDayAt(s, m2)
    IN  /\ FourDigitsAt(s, y1)
        /\ dash <= Len(s) /\ Char(s, dash) = "-"
        /\ FourDigitsAt(s, y2)

CaponePeriodOf(s, p) ==
    [found |-> TRUE,
     start_month_name |-> Upper(SubSeq(s, p, SkipLetters(s, p) - 1)),
     start_year |-> DigitsVal(SubSeq(s, MonthDayAt(s, p), MonthDayAt(s, p) + 3)),
     end_month_name |->
         Upper(SubSeq(s, SkipBlanks(s, SkipBlanks(s, MonthDayAt(s, p) + 4) + 1),
                      SkipLetters(s, SkipBlanks(s, SkipBlanks(s, MonthDayAt(s, p) + 4) + 1)) - 1)),
     end_year |->
         DigitsVal(SubSeq(s,
             MonthDayAt(s, SkipBlanks(s, SkipBlanks(s, MonthDayAt(s, p) + 4) + 1)),
             MonthDayAt(s, SkipBlanks(s, SkipBlanks(s, MonthDayAt(s, p) + 4) + 1)) + 3))]

\* lines 547-560: the statement period of the first line that has one;
\* without one both years are today's
RECURSIVE CaponePeriodFrom(_, _, _)
CaponePeriodFrom(lines, i, today) ==
    IF i > Len(lines)
    THEN [found |-> FALSE, start_month_name |-> "", start_year |-> today.year,
          end_month_name |-> "", end_year |-> today.year]
    ELSE IF \E p \in 1..Len(lines[i]) : CaponePeriodAt(lines[i], p)
    THEN CaponePeriodOf(lines[i],
             CHOOSE p \in 1..Len(lines[i]) :
                 /\ CaponePeriodAt(lines[i], p)
                 /\ \A q \in 1..(p - 1) : ~CaponePeriodAt(lines[i], q))
    ELSE CaponePeriodFrom(lines, i + 1, today)

MonthNames ==
    <<<<"JANUARY", 1>>, <<"JAN", 1>>, <<"FEBRUARY", 2>>, <<"FEB", 2>>, <<"MARCH", 3>>,
      <<"MAR", 3>>, <<"APRIL", 4>>, <<"APR", 4>>, <<"MAY", 5>>, <<"JUNE", 6>>, <<"JUN", 6>>,
      <<"JULY", 7>>, <<"JUL", 7>>, <<"AUGUST", 8>>, <<"AUG", 8>>, <<"SEPTEMBER", 9>>,
      <<"SEP", 9>>, <<"SEPT", 9>>, <<"OCTOBER", 10>>, <<"OCT", 10>>, <<"NOVEMBER", 11>>,
      <<"NOV", 11>>, <<"DECEMBER", 12>>, <<"DEC", 12>>>>

\* MONTH.get(key, default)
MonthGet(key, default) ==
    IF \E i \in 1..Len(MonthNames) : MonthNames[i][1] = key
    THEN MonthNames[CHOOSE i \in 1..Len(MonthNames) : MonthNames[i][1] = key][2]
    ELSE default

\* Python: s[:3]
First3(s) == SubSeq(s, 1, IF Len(s) < 3 THEN Len(s) ELSE 3)

\* _month_year_for_abbrev(mon_abbrev): <<year, month>>
MonthYearFor(mon_key, mnum, period, today) ==
    IF mnum = 0 THEN <<period.end_year, today.month>>
    ELSE IF period.start_month_name # "" /\ StartsWith(mon_key, First3(period.start_month_name))
    THEN <<period.start_year, mnum>>
    ELSE IF period.end_month_name # "" /\ StartsWith(mon_key, First3(period.end_month_name))
    THEN <<period.end_year, mnum>>
    ELSE IF /\ period.start_month_name # ""
            /\ mnum < MonthGet(period.start_month_name, mnum)
            /\ period.end_year > period.start_year
    THEN <<period.end_year, mnum>>
    ELSE <<period.start_year, mnum>>

\* mutant: every month dated in the start year
MonthYearInStartYear(mon_abbrev, period, today) ==
    <<period.start_year, MonthGet(Upper(mon_abbrev), today.month)>>

_month_year_for_abbrev(mon_abbrev, period, today) ==
    MonthYearFor(Upper(mon_abbrev), MonthGet(Upper(mon_abbrev), 0), period, today)

\* [A-Za-z]{3,9} and \d{1,2} on a whole token
MonthWord(t) == Len(t) \in 3..9 /\ \A k \in 1..Len(t) : IsLetter(Char(t, k))
DayDigits(t) == Len(t) \in 1..2 /\ AllDigits(t)

\* the amount group of line_re, -?\s*\$?\d[\d,]*\.\d{2}, ends the line: 2
\* if it is a lone '-' and the token after it, 1 if it is the last token,
\* 0 if the line does not end in an amount; the lazy description takes the
\* fewest tokens, and at least one
CaponeAmountTokens(tokens) ==
    LET n == Len(tokens)
    IN  IF n >= 7 /\ tokens[n - 1] = "-" /\ AmountBody(DropDollar(tokens[n]))
        THEN 2
        ELSE IF n >= 6 /\ AmountBody(DropDollar(
                              IF StartsWith(tokens[n], "-")
                              THEN SubSeq(tokens[n], 2, Len(tokens[n])) ELSE tokens[n]))
        THEN 1
        ELSE 0

\* amt_token = amt_str.replace(" ", "")
CaponeAmtToken(tokens, k) ==
    IF k = 2 THEN "-" \o tokens[Len(tokens)] ELSE tokens[Len(tokens)]

\* line_re of the Capital One tables:
\* ^\s*([A-Za-z]{3,9})\s+(\d{1,2})\s+([A-Za-z]{3,9})\s+(\d{1,2})\s+(.+?)\s+(amount)\s*$
capone_line_re(tokens) ==
    /\ Len(tokens) >= 6
    /\ MonthWord(tokens[1]) /\ DayDigits(tokens[2])
    /\ MonthWord(tokens[3]) /\ DayDigits(tokens[4])
    /\ CaponeAmountTokens(tokens) > 0

CaponeRow(ym, day, amt, mode, desc_clean, name) ==
    [Date |-> IsoDate(ym[1], ym[2], day),
     Amount |-> IF mode = "payments" THEN Abs(amt) ELSE 0 - Abs(amt),
     Direction |-> IF mode = "payments" THEN "credit" ELSE "debit",
     Source |-> "Capital One", Account |-> "Capital One 0728",
     Merchant |-> desc_clean, Description |-> desc_clean,
     Category |-> IF mode = "payments" THEN "Transfer:Card Payment"
                  ELSE _guess_category(desc_clean),
     Notes |-> "from " \o name]

\* lines 622-658 for a line that line_re matches, k being the number of
\* tokens of its amount; amt_token is the amount with its blanks removed
CaponeMatch(acc, tokens, k, amt, period, today, name) ==
    IF ~amt.ok THEN acc
    ELSE [acc EXCEPT !.rows = Append(@,
              CaponeRow(_month_year_for_abbrev(tokens[1], period, today),
                        DigitsVal(tokens[2]), amt.v, acc.mode,
                        Join(SubSeq(tokens, 5, Len(tokens) - k)), name))]

\* one pass of the loop over the lines (lines 596-658), s = raw.strip()
CaponeLine(acc, s, tokens, period, today, name) ==
    IF Contains(s, "JONATHAN KENDALL #0728: Payments, Credits and Adjustments")
    THEN [acc EXCEPT !.mode = "payments"]
    ELSE IF Contains(s, "JONATHAN KENDALL #0728: Transactions")
    THEN [acc EXCEPT !.mode = "spend"]
    ELSE IF acc.mode = "" THEN acc
    ELSE IF StartsWith(s, "Trans Date Post Date Description Amount") THEN acc
    ELSE IF StartsWith(s, "Total Transactions for This Period")
            \/ StartsWith(s, "Total Transactions") \/ StartsWith(s, "Total Fees")
    THEN [acc EXCEPT !.mode = ""]
    ELSE IF s = "" \/ ~capone_line_re(tokens) THEN acc
    ELSE CaponeMatch(acc, tokens, CaponeAmountTokens(tokens),
                     parse_amount_token(CaponeAmtToken(tokens, CaponeAmountTokens(tokens))),
                     period, today, name)

RECURSIVE CaponeFrom(_, _, _, _, _, _)
CaponeFrom(acc, lines, i, period, today, name) ==
    IF i > Len(lines) THEN acc
    ELSE CaponeFrom(CaponeLine(acc, Strip(lines[i]), Split(lines[i]), period, today, name),
                    lines, i + 1, period, today, name)

\* _parse_capone_0728_statement(txt_path)
_parse_capone_0728_statement(file, today) ==
    IF ~ContainsLine(file.lines, CaponeHeader) THEN <<>>
    ELSE CaponeFrom([rows |-> <<>>, mode |-> ""], file.lines, 1,
                    CaponePeriodFrom(file.lines, 1, today), today, file.name).rows

-----------------------------------------------------------------------------
(* PayPal Credit layout: ocr_pipeline._is_paypal_credit_statement,         *)
(* _extract_paypal_statement_year and _parse_paypal_credit_detail.         *)

UpperLines(lines) == [i \in 1..Len(lines) |-> Upper(lines[i])]

\* _is_paypal_credit_statement(txt), on the upper-cased lines
IsPaypalUpper(t) ==
    /\ ContainsLine(t, "PAYPAL")
    /\ ContainsLine(t, "TRANSACTION DETAILS")
    /\ ContainsLine(t, "ACCOUNT NUMBER")

_is_paypal_credit_statement(lines) == IsPaypalUpper(UpperLines(lines))

DueLabel == "Payment due date"

\* index of the date of a match of Payment due date\s+(\d{2})/(\d{2})/(\d{4})
\* that starts at p, 0 if there is none
DueDateAt(s, p) ==
    LET a == SkipBlanks(s, p + Len(DueLabel))
    IN  IF /\ p + Len(DueLabel) - 1 <= Len(s)
           /\ SubSeq(s, p, p + Len(DueLabel) - 1) = DueLabel
           /\ a > p + Len(DueLabel)
           /\ a + 9 <= Len(s)
           /\ AllDigits(SubSeq(s, a, a + 1)) /\ Char(s, a + 2) = "/"
           /\ AllDigits(SubSeq(s, a + 3, a + 4)) /\ Char(s, a + 5) = "/"
           /\ AllDigits(SubSeq(s, a + 6, a + 9))
        THEN a
        ELSE 0

DueOf(s, a) ==
    [year |-> DigitsVal(SubSeq(s, a + 6, a + 9)), month |-> DigitsVal(SubSeq(s, a, a + 1))]

\* _extract_paypal_statement_year(txt), and today's year and month when it
\* finds nothing (lines 1204-1208); the model's matches lie within one line
RECURSIVE StatementYearFrom(_, _, _)
StatementYearFrom(lines, i, today) ==
    IF i > Len(lines) THEN today
    ELSE IF \E p \in 1..Len(lines[i]) : DueDateAt(lines[i], p) > 0
    THEN DueOf(lines[i],
               DueDateAt(lines[i], CHOOSE p \in 1..Len(lines[i]) :
                   /\ DueDateAt(lines[i], p) > 0
                   /\ \A q \in 1..(p - 1) : DueDateAt(lines[i], q) = 0))
    ELSE StatementYearFrom(lines, i + 1, today)

\* _paypal_txn_iso_date(mm_dd, statement_year, due_month)
_paypal_txn_iso_date(mm_dd, statement_year, due_month) ==
    IsoDate(IF due_month = 1 /\ DigitsVal(SubSeq(mm_dd, 1, 2)) > due_month
            THEN statement_year - 1 ELSE statement_year,
            DigitsVal(SubSeq(mm_dd, 1, 2)), DigitsVal(SubSeq(mm_dd, 4, 5)))

\* index of the first line from i on for which P holds, Len + 1 if none:
\* the line with "Transaction details", the header row with Date and Amount
RECURSIVE FirstLineWith(_, _, _)
FirstLineWith(lines, i, w) ==
    IF i > Len(lines) THEN Len(lines) + 1
    ELSE IF \A k \in 1..Len(w) : Contains(lines[i], w[k]) THEN i
    ELSE FirstLineWith(lines, i + 1, w)

\* detail_re: ^\s*(\d{2}/\d{2})\s+(\S+)\s+(.*\S)\s+(-?\$?\d[\d,]*\.\d{2})\s*$
detail_re(tokens) ==
    /\ Len(tokens) >= 4
    /\ MonthDayRe(tokens[1])
    /\ AmountBody(DropDollar(IF StartsWith(tokens[Len(tokens)], "-")
                             THEN SubSeq(tokens[Len(tokens)], 2, Len(tokens[Len(tokens)]))
                             ELSE tokens[Len(tokens)]))

\* _update_section(line) on t = line.upper(): "" stands for None
_update_section(t) ==
    IF Contains(t, "PAYMENTS") THEN "payments"
    ELSE IF Contains(t, "PURCHASES AND OTHER DEBITS") THEN "purchases"
    ELSE IF Contains(t, "TOTAL FEES CHARGED THIS PERIOD") \/ Contains(t, "FEES") THEN "fees"
    ELSE IF Contains(t, "TOTAL INTEREST CHARGED THIS PERIOD")
            \/ Contains(t, "INTEREST CHARGED")
    THEN "interest"
    ELSE ""

_section_category(section, desc_upper) ==
    IF section = "purchases" THEN "Spending:Purchases"
    ELSE IF section = "payments" THEN "Transfer:Card Payment"
    ELSE IF section = "fees" THEN "Fees:Card Fees"
    ELSE IF section = "interest" THEN "Fees:Interest"
    ELSE IF Contains(desc_upper, "CASHBACK") THEN "Rewards/Cashback"
    ELSE ""

\* _section_direction_and_amount, amt being what parse_signed_amount gave
SectionAmount(section, amt) ==
    IF section \in {"purchases", "fees", "interest"}
    THEN (IF amt > 0 THEN 0 - amt ELSE amt)
    ELSE IF section = "payments" THEN (IF amt < 0 THEN 0 - amt ELSE amt)
    ELSE amt

SectionDirection(section, amt) ==
    IF section \in {"purchases", "fees", "interest"} THEN "debit"
    ELSE IF section = "payments" THEN "transfer"
    ELSE IF amt > 0 THEN "credit" ELSE "debit"

PaypalRow(date, section, amt, desc_clean, desc_upper, name) ==
    [Date |-> date, Amount |-> SectionAmount(section, amt),
     Direction |-> SectionDirection(section, amt),
     Source |-> "PayPal Credit", Account |-> "PayPal Credit",
     Merchant |-> desc_clean, Description |-> desc_clean,
     Category |-> _section_category(section, desc_upper),
     Notes |-> "from " \o name \o " (PayPal credit detail)"]

\* lines 1304-1333 for a line detail_re matches
PaypalMatch(acc, tokens, desc_clean, desc_upper, due, name) ==
    [acc EXCEPT !.rows = Append(@,
        PaypalRow(_paypal_txn_iso_date(tokens[1], due.year, due.month), acc.section,
                  PipelineParseSignedAmount(tokens[Len(tokens)], desc_upper),
                  desc_clean, desc_upper, name))]

\* mutant: a continuation line extends the description only
ContinuationOfDescription(rows, stripped) ==
    IF stripped # "" /\ ~(Len(stripped) >= 5 /\ MonthDayRe(SubSeq(stripped, 1, 5)))
    THEN [rows EXCEPT ![Len(rows)] = [@ EXCEPT !.Description = @ \o " " \o stripped]]
    ELSE rows

\* lines 1295-1302: a continuation line extends the description of the
\* last row
Continuation(rows, stripped) ==
    IF stripped # "" /\ ~(Len(stripped) >= 5 /\ MonthDayRe(SubSeq(stripped, 1, 5)))
    THEN [rows EXCEPT ![Len(rows)] =
             [@ EXCEPT !.Description = @ \o " " \o stripped,
                       !.Merchant = rows[Len(rows)].Description \o " " \o stripped]]
    ELSE rows

\* one pass of the loop over the detail lines (lines 1283-1335)
PaypalLine(acc, line, tokens, sec, due, name) ==
    IF acc.stop THEN acc
    ELSE IF Contains(line, "Cardholder news and information") THEN [acc EXCEPT !.stop = TRUE]
    ELSE IF sec # "" THEN [acc EXCEPT !.section = sec]
    ELSE IF Len(acc.rows) > 0 /\ ~detail_re(tokens)
    THEN [acc EXCEPT !.rows = Continuation(@, Strip(line))]
    ELSE IF ~detail_re(tokens) THEN acc
    ELSE PaypalMatch(acc, tokens, Join(SubSeq(tokens, 3, Len(tokens) - 1)),
                     Upper(Join(SubSeq(tokens, 3, Len(tokens) - 1))), due, name)

RECURSIVE PaypalFrom(_, _, _, _, _)
PaypalFrom(acc, lines, idx, due, name) ==
    IF idx > Len(lines) THEN acc
    ELSE PaypalFrom(PaypalLine(acc, lines[idx], Split(lines[idx]),
                               _update_section(Upper(lines[idx])), due, name),
                    lines, idx + 1, due, name)

\* lines 1212-1231 and the loop: start_idx, the header row, the details
PaypalDetailFrom(lines, start_idx, due, name) ==
    IF start_idx > Len(lines) THEN <<>>
    ELSE PaypalFrom([rows |-> <<>>, section |-> "", stop |-> FALSE], lines,
                    FirstLineWith(lines, start_idx + 1, <<"Date", "Amount">>) + 1,
                    due, name).rows

\* _parse_paypal_credit_detail(path)
_parse_paypal_credit_detail(file, today) ==
    IF ~_is_paypal_credit_statement(file.lines) THEN <<>>
    ELSE PaypalDetailFrom(file.lines, FirstLineWith(file.lines, 1, <<"Transaction details">>),
                          StatementYearFrom(file.lines, 1, today), file.name)

-----------------------------------------------------------------------------
(* Chase dashboard screenshots: ocr_pipeline._parse_amount_with_sign and   *)
(* parse_chase_dashboard_ocr_text.                                         *)

\* \w of the regular expressions
IsWordChar(c) == IsLetter(c) \/ IsDigit(c) \/ c = "_"

\* \bw\b found in text (both already in one case)
WordIn(text, w) ==
    \E i \in 1..(Len(text) - Len(w) + 1) :
        /\ SubSeq(text, i, i + Len(w) - 1) = w
        /\ i = 1 \/ ~IsWordChar(Char(text, i - 1))
        /\ i + Len(w) > Len(text) \/ ~IsWordChar(Char(text, i + Len(w)))

AnyWordBoundedIn(text, words) == \E k \in 1..Len(words) : WordIn(text, words[k])

\* _TXN_KEYWORDS_RE, matched ignoring case
TxnKeywords ==
    <<"CARD", "ACH", "ACCOUNT TRANSFER", "POS", "DEBIT", "CREDIT", "PAYMENT", "PAYROLL",
      "TRANSFER">>

\* the income words of _parse_amount_with_sign, matched ignoring case
IncomeWords == <<"CREDIT", "DEPOSIT", "PAYROLL", "REFUND">>

MonthAbbrevs ==
    <<"Jan", "Feb", "Mar", "Apr", "May", "Jun", "Jul", "Aug", "Sep", "Oct", "Nov", "Dec">>

\* index after the digits and commas that start at p
RECURSIVE SkipDigitsCommas(_, _)
SkipDigitsCommas(s, p) ==
    IF p <= Len(s) /\ (IsDigit(Char(s, p)) \/ Char(s, p) = ",")
    THEN SkipDigitsCommas(s, p + 1)
    ELSE p

\* \$[\d,]+\.\d{2} matches at the '$' at q
DollarAmountAt(s, q) ==
    LET r == SkipDigitsCommas(s, q + 1)
    IN  /\ Char(s, q) = "$"
        /\ r > q + 1
        /\ r + 2 <= Len(s)
        /\ Char(s, r) = "." /\ IsDigit(Char(s, r + 1)) /\ IsDigit(Char(s, r + 2))

HasDollarAmount(s) == \E q \in 1..Len(s) : DollarAmountAt(s, q)

\* group 1 of _AMOUNT_RE.search(rest): (-?\$[\d,]+\.\d{2}), leftmost match
DollarAmountOf(s) ==
    LET q == CHOOSE x \in 1..Len(s) :
                 DollarAmountAt(s, x) /\ \A y \in 1..(x - 1) : ~DollarAmountAt(s, y)
    IN  SubSeq(s, IF q > 1 /\ Char(s, q - 1) = "-" THEN q - 1 ELSE q,
               SkipDigitsCommas(s, q + 1) + 2)

\* _parse_amount_with_sign(rest, amount_raw), value being float(s) or the
\* failure of the conversion
SignedByContext(rest, amount_raw, value) ==
    IF ~value.ok THEN 0
    ELSE IF StartsWith(Strip(amount_raw), "-") THEN value.v
    ELSE IF AnyWordBoundedIn(Upper(rest), IncomeWords) THEN Abs(value.v)
    ELSE 0 - Abs(value.v)

_parse_amount_with_sign(rest, amount_raw) ==
    SignedByContext(rest, amount_raw,
                    NumberOf(RemoveChar(RemoveChar(amount_raw, "$"), ",")))

\* _DATE_RE at the start of a line:
\* ^(Jan|...|Dec)\s+(\d{1,2}),\s*(\d{4})(.*)$ ; the index of the year, 0 if
\* the line does not match
DashDateAt(s) ==
    LET a == SkipBlanks(s, 4)
        b == SkipDigits(s, a)
        c == SkipBlanks(s, b + 1)
    IN  IF /\ Len(s) >= 3
           /\ \E k \in 1..12 : SubSeq(s, 1, 3) = MonthAbbrevs[k]
           /\ a > 4 /\ b - a \in 1..2
           /\ b <= Len(s) /\ Char(s, b) = ","
           /\ FourDigitsAt(s, c)
        THEN c
        ELSE 0

\* datetime.strptime(f"{mon_abbr} {int(day)} {int(year)}", "%b %d %Y"):
\* the date, NoDate for ValueError
DashDateOf(s, c) ==
    DateOf(DigitsVal(SubSeq(s, c, c + 3)),
           CHOOSE k \in 1..12 : SubSeq(s, 1, 3) = MonthAbbrevs[k],
           DigitsVal(SubSeq(s, SkipBlanks(s, 4), SkipDigits(s, SkipBlanks(s, 4)) - 1)))

DashRow(date, rest, line) ==
    [date |-> date, merchant |-> rest, amount |-> _parse_amount_with_sign(rest, DollarAmountOf(rest)),
     account_name |-> "Chase Checking (screenshot)", source_system |-> "ChaseScreenshot",
     raw_line |-> line]

\* lines 2025-2049 on a line's rest under the date in force
DashRest(acc, date, rest, line) ==
    IF date = NoDate \/ ~HasDollarAmount(rest)
       \/ ~AnyWordBoundedIn(Upper(rest), TxnKeywords)
    THEN [acc EXCEPT !.last_date = date]
    ELSE [rows |-> Append(acc.rows, DashRow(date, rest, line)), last_date |-> date]

\* lines 2007-2023: a line that starts with a date sets the date in force
\* (or clears it, if it is no calendar date) and leaves its rest
DashDated(acc, line, c) ==
    DashRest(acc, DashDateOf(line, c),
             IF DashDateOf(line, c) = NoDate THEN SubSeq(line, c + 4, Len(line))
             ELSE Strip(SubSeq(line, c + 4, Len(line))),
             line)

\* one pass of the loop over a stripped line
DashLine(acc, line) ==
    IF line = "" THEN acc
    ELSE IF DashDateAt(line) > 0 THEN DashDated(acc, line, DashDateAt(line))
    ELSE DashRest(acc, acc.last_date, line, line)

RECURSIVE DashFrom(_, _, _)
DashFrom(acc, lines, i) ==
    IF i > Len(lines) THEN acc
    ELSE DashFrom(DashLine(acc, Strip(lines[i])), lines, i + 1)

\* parse_chase_dashboard_ocr_text(txt_path)
parse_chase_dashboard_ocr_text(file) ==
    DashFrom([rows |-> <<>>, last_date |-> NoDate], file.lines, 1).rows

-----------------------------------------------------------------------------
(* ocr_pipeline.process_uploaded_statement_files and                       *)
(* import_everything_from_downloads.main.                                  *)

\* a file of uploads_dir: stem and suffix of its name, its content, and its
\* place in sorted(uploads_dir.iterdir())
File(stem, ext, bytes, rank) == [stem |-> stem, ext |-> ext, bytes |-> bytes, rank |-> rank]

FJan == File("jan", ".pdf", "bytes-jan", 1)
\* a second copy of the same statement under another name
FJanCopy == File("jan_copy", ".PDF", "bytes-jan", 2)
FNotes == File("notes", ".csv", "bytes-notes", 3)
FShot == File("shot", ".png", "bytes-shot", 4)
FVenmo == File("venmo_ocr", ".txt", "bytes-venmo", 5)
\* a screenshot of the Chase dashboard whose text is read line by line
FDash == File("dash", ".png", "bytes-dash", 6)

\* a Chase statement whose text is read line by line
FStmt == File("stmt", ".pdf", "bytes-stmt", 7)

DashPayroll == "Dec 03, 2025 ACH credit PAYROLL $1,200.00"
DashPurchase == "12/03/2025 Card Purchase AMAZON $12.50"

ChasePeriod == "December 15, 2023 through January 16, 2024"
ChaseStart == "*start*transaction detail"
ChaseEnd == "*end*transaction detail"

\* the files whose text is read line by line
TextFiles == {FDash, FStmt}

\* the text OCR leaves in the artifact of a file
TextOf(f) ==
    IF f = FDash THEN <<DashPayroll, DashPurchase>>
    ELSE IF f = FStmt
    THEN <<ChasePeriod, ChaseStart, "12/20 Card Purchase AMAZON -12.50 1,000.00", ChaseEnd>>
    ELSE <<>>

OcrSuffixes == {".pdf", ".png", ".jpg", ".jpeg"}

\* dst of the intake loop: statements_dir / src.name for a text file,
\* statements_dir / f"{src.stem}_ocr.txt" otherwise
ArtifactName(f) ==
    IF Lower(f.ext) = ".txt" THEN f.stem \o f.ext ELSE f.stem \o "_ocr.txt"

\* the artifact of a file as the parsers of step 2 open it
ArtifactOf(f) == [name |-> ArtifactName(f), lines |-> TextOf(f)]

\* the rows both parsers of step 2 read from the text of a file
TextParsed ==
    [f \in TextFiles |->
        [chase |-> parse_chase_dashboard_ocr_text(ArtifactOf(f)),
         generic |-> process_statement_files(ArtifactOf(f), FALSE).rows]]

\* step 2 for one text file: the rows parse_chase_dashboard_ocr_text and
\* process_statement_files return for its text
StepTwo(f) ==
    IF f \in TextFiles THEN TextParsed[f]
    ELSE [chase |->
              IF f = FShot
              THEN <<[date |-> 3, merchant |-> "TRANSFER TO SAVINGS", amount |-> -5000,
                      account_name |-> "Chase Checking (screenshot)",
                      source_system |-> "ChaseScreenshot",
                      raw_line |-> "Jan 03 Account transfer TRANSFER TO SAVINGS -$50.00"]>>
              ELSE <<>>,
          generic |->
              IF f = FJan THEN <<RowA, RowU>>
              ELSE IF f = FJanCopy THEN <<RowA2>>
              ELSE IF f = FVenmo THEN <<RowB>>
              ELSE <<>>]

\* what parse_chase_dashboard_ocr_text returns for the text of a file
ChaseRows(f) == StepTwo(f).chase

\* what process_statement_files returns for the text of a file
GenericRows(f) == StepTwo(f).generic

\* the dict built from a Chase row (no Direction key)
NormalizeChase(r, f) ==
    [Date |-> r.date, Amount |-> r.amount, Merchant |-> r.merchant,
     Source |-> OrDefault(r.source_system, "Chase Screenshot"),
     Account |-> r.account_name, Direction |-> "",
     Description |-> r.merchant, Category |-> "",
     Notes |-> OrDefault(r.raw_line, "from " \o ArtifactName(f))]

\* all_rows.extend(normalized_chase); all_rows.extend(generic_rows)
ExtendAllRows(f, parsed_rows) ==
    [i \in 1..Len(parsed_rows.chase) |-> NormalizeChase(parsed_rows.chase[i], f)]
        \o parsed_rows.generic

\* the rows step 2 derives from one text file: Chase rows, then generic rows
RowsOfFile(f) == ExtendAllRows(f, StepTwo(f))

\* the files of a directory in sorted() order
RECURSIVE SortedFiles(_)
SortedFiles(batch) ==
    IF batch = {} THEN <<>>
    ELSE LET f == CHOOSE x \in batch : \A y \in batch : x.rank <= y.rank
         IN  <<f>> \o SortedFiles(batch \ {f})

NoIntake == [txt |-> <<>>, invoked |-> {}, written |-> {}, raised |-> FALSE]

\* mutant: the OCR call outside any try/except
IntakeFileNoCatch(acc, f, fails) ==
    IF acc.raised THEN acc
    ELSE IF Lower(f.ext) = ".txt"
    THEN [acc EXCEPT !.txt = Append(@, f), !.written = @ \cup {ArtifactName(f)}]
    ELSE IF Lower(f.ext) \in OcrSuffixes
    THEN IF f \in fails
         THEN [acc EXCEPT !.invoked = @ \cup {f}, !.raised = TRUE]
         ELSE [acc EXCEPT !.invoked = @ \cup {f}, !.txt = Append(@, f),
                          !.written = @ \cup {ArtifactName(f)}]
    ELSE acc

\* one pass of the intake loop (lines 1382-1412); fails are the files for
\* which the external tool exits non-zero or is missing
IntakeFile(acc, f, fails) ==
    IF acc.raised THEN acc
    ELSE IF Lower(f.ext) = ".txt"
    THEN [acc EXCEPT !.txt = Append(@, f), !.written = @ \cup {ArtifactName(f)}]
    ELSE IF Lower(f.ext) \in OcrSuffixes
    THEN IF f \in fails
         THEN [acc EXCEPT !.invoked = @ \cup {f}]
         ELSE [acc EXCEPT !.invoked = @ \cup {f}, !.txt = Append(@, f),
                          !.written = @ \cup {ArtifactName(f)}]
    ELSE acc

RECURSIVE IntakeFrom(_, _, _, _)
IntakeFrom(acc, files, i, fails) ==
    IF i > Len(files) THEN acc
    ELSE IntakeFrom(IntakeFile(acc, files[i], fails), files, i + 1, fails)

\* all_rows of step 2
RECURSIVE AllRows(_, _)
AllRows(txt, i) ==
    IF i > Len(txt) THEN <<>> ELSE RowsOfFile(txt[i]) \o AllRows(txt, i + 1)

\* the places (line, column) where w occurs in a text
Occurrences(lines, w) ==
    UNION {{<<i, c>> : c \in {x \in 1..(Len(lines[i]) - Len(w) + 1) :
                                  SubSeq(lines[i], x, x + Len(w) - 1) = w}} :
           i \in 1..Len(lines)}

ComesBefore(a, b) == a[1] < b[1] \/ (a[1] = b[1] /\ a[2] < b[2])

\* the end markers of the part that follows the start marker at s
\* (text.split(start)[k], "*end*transaction detail" in part)
EndsOfPart(lines, s) ==
    {e \in Occurrences(lines, ChaseEnd) :
        /\ ComesBefore(s, e)
        /\ \A t \in Occurrences(lines, ChaseStart) : ComesBefore(s, t) => ComesBefore(e, t)}

\* the body of the part that follows s has a line: there is text, or a
\* line break, between the start marker and the part's first end marker
BodyHasLine(lines, s) ==
    /\ EndsOfPart(lines, s) # {}
    /\ \E e \in EndsOfPart(lines, s) :
          /\ \A g \in EndsOfPart(lines, s) : g = e \/ ComesBefore(e, g)
          /\ e[1] > s[1] \/ e[2] > s[2] + Len(ChaseStart)

\* _count_candidates_in_file(path): the name _TX_LINE_RE is bound nowhere
\* in the module, so the first line of the first complete block raises
\* NameError; without such a line the count is 0
_count_candidates_in_file(lines) ==
    [raised |-> \E s \in Occurrences(lines, ChaseStart) : BodyHasLine(lines, s),
     total |-> 0]

\* every file of the model
AllFiles == {FJan, FJanCopy, FNotes, FShot, FVenmo, FDash, FStmt}

\* the candidate count of each artifact of statements_dir, by name
CandidateCount ==
    [name \in {ArtifactName(f) : f \in AllFiles} |->
        _count_candidates_in_file(
            TextOf(CHOOSE f \in AllFiles : ArtifactName(f) = name))]

\* build_import_report(statements_dir, db_session, Transaction) over the
\* artifacts in place: raised, or the totals
build_import_report(names) ==
    [raised |-> \E a \in names : EndsWith(a, "_ocr.txt") /\ CandidateCount[a].raised,
     candidate_lines |-> 0]

\* step 5: the stats dict and what the call did
RunResult(d, acc, all_rows, after) ==
    [db |-> after, txt |-> acc.txt, invoked |-> acc.invoked, written |-> acc.written,
     raised |-> acc.raised, all_rows |-> all_rows,
     saved_files |-> Len(acc.txt),
     added_transactions |-> Len(after) - Len(d),
     skipped_duplicates |-> Len(all_rows) - (Len(after) - Len(d))]

\* mutant: the candidate lines of every text file counted before the
\* import, outside any try/except
ImportStepCounting(d, acc, all_rows) ==
    IF \E i \in 1..Len(acc.txt) : CandidateCount[ArtifactName(acc.txt[i])].raised
    THEN [RunResult(d, acc, <<>>, d) EXCEPT !.raised = TRUE]
    ELSE RunResult(d, acc, all_rows,
                   IF all_rows # <<>>
                   THEN import_ocr_rows(d, all_rows, "Screenshot OCR", "")
                   ELSE d)

\* step 3: import_ocr_rows is called only if there are rows
ImportStep(d, acc, all_rows) ==
    RunResult(d, acc, all_rows,
              IF all_rows # <<>>
              THEN import_ocr_rows(d, all_rows, "Screenshot OCR", "")
              ELSE d)

\* step 2 on the text files intake obtained
ParseStep(d, acc) ==
    ImportStep(d, acc, IF acc.raised THEN <<>> ELSE AllRows(acc.txt, 1))

\* process_uploaded_statement_files(uploads_dir, statements_dir): the table
\* after the call and what the call did
process_uploaded_statement_files(d, batch, fails) ==
    ParseStep(d, IntakeFrom(NoIntake, SortedFiles(batch), 1, fails))

\* parameters process_uploaded_statement_files declares, and the keywords
\* import_everything_from_downloads.main passes to it
DeclaredParams == {"uploads_dir", "statements_dir"}
MainKeywords ==
    {"uploads_dir", "statements_dir", "db_session", "Transaction", "is_duplicate_transaction"}

\* the PDF loop of main over the first k files: the files copied to the
\* temporary uploads directory; each one's checksum is appended to
\* checksums_all.txt as it is copied
CopiedPdfs(files, k, existing_checksums) ==
    {files[i] : i \in {j \in 1..k : files[j].bytes \notin existing_checksums}}

-----------------------------------------------------------------------------
(* Bounds and the inputs drawn per operation.                              *)

\* operations run in one behaviour
MaxOps == 4

\* the row lists callers hand to import_ocr_rows: single rows, the same
\* key twice in one call, a transfer pair, a screenshot with its original,
\* an undated row among dated ones
RowLists ==
    {<<RowA>>, <<RowA2>>, <<RowB>>, <<RowS>>, <<RowA, RowA2>>, <<RowA, RowB>>,
     <<RowS, RowA>>, <<RowU, RowA2, RowB>>}

Range(q) == {q[i] : i \in 1..Len(q)}

\* magnitudes as written and their value in hundredths
Magnitudes ==
    {<<"68.02", 6802>>, <<"1,234.56", 123456>>, <<"54.10", 5410>>, <<"1200.00", 120000>>}

\* an amount token: its text, the surface form it was built in, where its
\* '$' stands, the magnitude it writes, and how many negative markers it
\* carries
Token(text, shape, dollar, mag, markers) ==
    [text |-> text, shape |-> shape, dollar |-> dollar, mag |-> mag, markers |-> markers]

\* the surface forms of one written number s
Shapes(s, dollar, mag) ==
    {Token(s, "m", dollar, mag, 0),
     Token(" " \o s \o " ", "m", dollar, mag, 0),
     Token("+" \o s, "+m", dollar, mag, 0),
     Token("-" \o s, "-m", dollar, mag, 1),
     Token(UnicodeMinus \o s, "-m", dollar, mag, 1),
     Token(s \o "-", "m-", dollar, mag, 1),
     Token("(" \o s \o ")", "(m)", dollar, mag, 1),
     Token("(" \o s \o ")-", "(m)-", dollar, mag, 2),
     Token("(-" \o s \o ")", "(-m)", dollar, mag, 2),
     Token("-" \o s \o "-", "-m-", dollar, mag, 2),
     Token("-(" \o s \o ")", "-(m)", dollar, mag, 2)}

\* the tokens handed to the amount parsers
Tokens ==
    UNION {Shapes(m[1], "none", m[2]) \cup Shapes("$" \o m[1], "inner", m[2])
             \cup {Token("$(" \o m[1] \o ")", "(m)", "outer", m[2], 1),
                   Token("$-" \o m[1], "-m", "outer", m[2], 1)} :
           m \in Magnitudes}

\* the balance hint of direction_rules: absent, rising, or falling
BalanceHints ==
    {[has |-> FALSE, before |-> 0, after |-> 0],
     [has |-> TRUE, before |-> 10000, after |-> 20000],
     [has |-> TRUE, before |-> 20000, after |-> 10000]}

\* pipeline runs in one behaviour
MaxRuns == 4

\* the contents of uploads_dir at a run
UploadBatches ==
    {{FJan}, {FJan, FJanCopy}, {FJan, FNotes, FShot}, {FShot, FVenmo}, {FDash, FStmt}}

\* the PDFs under ~/Downloads/accounts at a run of main
DownloadBatches == {{FJan}, {FJan, FJanCopy}}

\* at most one file of a batch fails in the external tool
FailSets(batch) == {{}} \cup {{f} : f \in {x \in batch : Lower(x.ext) \in OcrSuffixes}}

-----------------------------------------------------------------------------
(* State machine.                                                          *)

NoCycle == [rows |-> <<>>, stage |-> 0, n |-> 0]

\* summary of an operation: its name, inputs and return values
Summary(op) ==
    [op |-> op, rows |-> <<>>, before |-> <<>>, inserted |-> 0, skipped |-> 0,
     batch |-> {}, fails |-> {}, invoked |-> {}, written |-> {}, handed |-> <<>>,
     raised |-> FALSE, stopped |-> FALSE, known |-> {}, saved |-> 0]

\* what is kept of the operation before last
Brief(sm) ==
    [op |-> sm.op, batch |-> sm.batch, fails |-> sm.fails, stopped |-> sm.stopped,
     raised |-> sm.raised]

DbInit ==
    /\ db = <<>>
    /\ last = Summary("none")
    /\ prev = [op |-> "none", batch |-> {}, fails |-> {}, stopped |-> FALSE, raised |-> FALSE]
    /\ cycle = NoCycle
    /\ nOps = 0
    /\ artifacts = {}
    /\ produced = {}
    /\ checksums = {}
    /\ given = {}

NoResult == [done |-> FALSE, fn |-> "", out |-> NotANumber, bal |-> FALSE]

AmtIdle ==
    /\ tok = Token("", "", "none", 0, 0)
    /\ ctx = ""
    /\ res = NoResult

NoFile == [name |-> "", lines |-> <<>>]

NoParse ==
    [done |-> FALSE, fn |-> "", collect |-> FALSE, rows |-> <<>>, rejected |-> <<>>,
     per |-> <<>>, origin |-> <<>>]

ParseIdle ==
    /\ ocr_text = NoFile
    /\ parsed = NoParse

Init == DbInit /\ AmtIdle /\ ParseIdle

\* a caller hands rows to import_ocr_rows with the default arguments
ImportOcrRows ==
    \E rows \in RowLists :
        /\ nOps < MaxOps
        /\ LET after == import_ocr_rows(db, rows, "Screenshot OCR", "")
           IN  /\ db' = after
               /\ last' = [Summary("import") EXCEPT
                              !.rows = rows, !.before = db,
                              !.inserted = Len(after) - Len(db),
                              !.skipped = Len(rows) - (Len(after) - Len(db))]
        /\ prev' = Brief(last)
        /\ given' = given \cup {NormalizeRow(rows[i], "Screenshot OCR", "") : i \in 1..Len(rows)}
        /\ cycle' = IF cycle.stage = 3 /\ cycle.rows = rows
                    THEN [cycle EXCEPT !.stage = 1, !.n = cycle.n + 1]
                    ELSE [rows |-> rows, stage |-> 1, n |-> 1]
        /\ nOps' = nOps + 1
        /\ UNCHANGED <<artifacts, produced, checksums, tok, ctx, res, parseVars>>

\* dedupe_transactions.main: Pass A then Pass B
DedupeTransactions ==
    /\ nOps < MaxOps
    /\ db' = mark_screenshot_clones(mark_true_duplicates(db))
    /\ last' = [Summary("dedupe") EXCEPT !.before = db]
    /\ prev' = Brief(last)
    /\ cycle' = IF cycle.stage = 1 THEN [cycle EXCEPT !.stage = 2] ELSE NoCycle
    /\ nOps' = nOps + 1
    /\ UNCHANGED <<artifacts, produced, checksums, given, tok, ctx, res, parseVars>>

\* reconcile_transfers.reconcile_internal_transfers
ReconcileInternalTransfers ==
    /\ nOps < MaxOps
    /\ db' = reconcile_internal_transfers(db)
    /\ last' = [Summary("reconcile") EXCEPT !.before = db]
    /\ prev' = Brief(last)
    /\ cycle' = IF cycle.stage = 2 THEN [cycle EXCEPT !.stage = 3] ELSE NoCycle
    /\ nOps' = nOps + 1
    /\ UNCHANGED <<artifacts, produced, checksums, given, tok, ctx, res, parseVars>>

Next == ImportOcrRows \/ DedupeTransactions \/ ReconcileInternalTransfers

Spec == Init /\ [][Next]_vars

\* the app's import route or a script runs the pipeline over a batch
ProcessUploaded ==
    \E batch \in UploadBatches : \E fails \in FailSets(batch) :
    \E run \in {process_uploaded_statement_files(db, batch, fails)} :
        /\ nOps < MaxRuns
        /\ db' = run.db
        /\ last' = [Summary("upload") EXCEPT
                       !.rows = run.all_rows, !.before = db,
                       !.inserted = run.added_transactions,
                       !.skipped = run.skipped_duplicates,
                       !.saved = run.saved_files,
                       !.batch = batch, !.fails = fails,
                       !.invoked = run.invoked, !.written = run.written,
                       !.handed = run.all_rows, !.raised = run.raised,
                       !.known = produced]
        /\ artifacts' = artifacts \cup run.written
        /\ produced' = produced \cup
               {f.bytes : f \in {x \in Range(run.txt) : Lower(x.ext) \in OcrSuffixes}}
        /\ given' = given \cup
               {NormalizeRow(run.all_rows[i], "Screenshot OCR", "") :
                   i \in 1..Len(run.all_rows)}
        /\ prev' = Brief(last)
        /\ cycle' = NoCycle
        /\ nOps' = nOps + 1
        /\ UNCHANGED <<checksums, tok, ctx, res, parseVars>>

\* the call of main at lines 102-108: a TypeError unless every keyword is a
\* declared parameter; otherwise the pipeline over the copied files
MainCall(d, copied) ==
    IF MainKeywords \subseteq DeclaredParams
    THEN [process_uploaded_statement_files(d, copied, {}) EXCEPT !.raised = FALSE]
    ELSE [RunResult(d, NoIntake, <<>>, d) EXCEPT !.raised = TRUE]

\* import_everything_from_downloads.main over the PDFs of a batch; the
\* process may be stopped after k files of the copy loop
MainImportEverything ==
    \E batch \in DownloadBatches : \E k \in 0..Cardinality(batch) :
    \E copied \in {CopiedPdfs(SortedFiles(batch), k, checksums)} :
    \E called \in {k = Cardinality(batch) /\ copied # {}} :
    \E run \in {IF called THEN MainCall(db, copied) ELSE RunResult(db, NoIntake, <<>>, db)} :
        /\ nOps < MaxRuns
        /\ checksums' = checksums \cup {f.bytes : f \in copied}
        /\ db' = run.db
        /\ last' = [Summary("main") EXCEPT
                       !.before = db, !.batch = batch,
                       !.rows = run.all_rows,
                       !.inserted = run.added_transactions,
                       !.invoked = run.invoked,
                       !.written = run.written,
                       !.raised = run.raised,
                       !.stopped = k < Cardinality(batch),
                       !.known = checksums]
        /\ artifacts' = artifacts \cup run.written
        /\ produced' = produced \cup {f.bytes : f \in Range(run.txt)}
        /\ prev' = Brief(last)
        /\ cycle' = NoCycle
        /\ nOps' = nOps + 1
        /\ UNCHANGED <<given, tok, ctx, res, parseVars>>

\* the markers run between pipeline runs
DedupeBetweenRuns == nOps < MaxRuns /\ DedupeTransactions

ReconcileBetweenRuns == nOps < MaxRuns /\ ReconcileInternalTransfers

\* build_import_report over statements_dir, as verify_statement_batch
\* calls it after the pipeline
BuildImportReport ==
    \E report \in {build_import_report(artifacts)} :
        /\ nOps < MaxRuns
        /\ last' = [Summary("report") EXCEPT !.before = db, !.raised = report.raised]
        /\ prev' = Brief(last)
        /\ cycle' = NoCycle
        /\ nOps' = nOps + 1
        /\ UNCHANGED <<db, artifacts, produced, given, checksums, tok, ctx, res, parseVars>>

NextReport == ProcessUploaded \/ BuildImportReport

SpecReport == Init /\ [][NextReport]_vars

NextPipeline ==
    ProcessUploaded \/ MainImportEverything \/ DedupeBetweenRuns \/ ReconcileBetweenRuns

SpecPipeline == Init /\ [][NextPipeline]_vars

-----------------------------------------------------------------------------
(* Properties of the import bridge and the refresh cycle.                  *)

KeyOfTx(t) == <<t.date, t.amount, t.merchant, t.account_name, t.source_system>>
KeyOfRow(r) == <<r.date, r.amount, r.merchant, r.account, r.source>>

\* the stored records with a given identity key
WithKey(d, k) == {i \in 1..Len(d) : KeyOfTx(d[i]) = k}

\* the normalised rows of the last import_ocr_rows call that have a date
LastDatedRows ==
    {r \in {NormalizeRow(last.rows[i], "Screenshot OCR", "") : i \in 1..Len(last.rows)} :
        r.date # NoDate}

\* the records the last call added
LastAdded == {i \in 1..Len(db) : i > Len(last.before)}

\* C2: two rows handed to import_ocr_rows, in one call or in separate
\* calls, that agree on (date, amount, merchant, account_name,
\* source_system) and differ in notes or category leave exactly one stored
\* record with that key.
C2_OneRecordPerKey ==
    \A r1 \in given : \A r2 \in given :
        (/\ r1.date # NoDate
         /\ KeyOfRow(r1) = KeyOfRow(r2)
         /\ (r1.notes # r2.notes \/ r1.category # r2.category))
        => Cardinality(WithKey(db, KeyOfRow(r1))) = 1

\* an import has stored a second record under a key whose first record a
\* marker pass had flagged
C2_Witness ==
    /\ last.op = "import"
    /\ \E i \in LastAdded :
          /\ db[i].notes = "from jan_copy_ocr.txt"
          /\ \E j \in WithKey(last.before, KeyOfTx(db[i])) :
                last.before[j].is_transfer /\ last.before[j].notes # db[i].notes
          /\ Cardinality(WithKey(db, KeyOfTx(db[i]))) = 2

C4_NoGrowthAfterFirstCycle ==
    (cycle.n >= 2 /\ last.op = "import") => last.inserted = 0


\* a caller holds a token and the text of its line
AmtInit ==
    /\ DbInit
    /\ tok \in Tokens
    /\ ctx \in Contexts
    /\ res = NoResult
    /\ ParseIdle

\* chase_amount_utils.parse_amount_token(token)
ParseAmountToken ==
    /\ ~res.done
    /\ res' = [done |-> TRUE, fn |-> "parse_amount_token",
               out |-> parse_amount_token(tok.text), bal |-> FALSE]
    /\ UNCHANGED <<dbVars, tok, ctx, parseVars>>

\* ocr_pipeline.parse_signed_amount(raw, context)
PipelineSignedAmount ==
    /\ ~res.done
    /\ res' = [done |-> TRUE, fn |-> "ocr_pipeline.parse_signed_amount",
               out |-> Num(PipelineParseSignedAmount(tok.text, ctx)), bal |-> FALSE]
    /\ UNCHANGED <<dbVars, tok, ctx, parseVars>>

\* direction_rules.parse_signed_amount(raw, context, balance_before, balance_after)
RulesSignedAmount ==
    \E b \in BalanceHints :
        /\ ~res.done
        /\ res' = [done |-> TRUE, fn |-> "direction_rules.parse_signed_amount",
                   out |-> RulesParseSignedAmount(tok.text, ctx, b.has, b.before, b.after),
                   bal |-> b.has]
        /\ UNCHANGED <<dbVars, tok, ctx, parseVars>>

NextAmount == ParseAmountToken \/ PipelineSignedAmount \/ RulesSignedAmount

SpecAmount == AmtInit /\ [][NextAmount]_vars

\* the import of a second cycle over the same rows has added records
C4_Witness ==
    /\ cycle.n >= 2 /\ last.op = "import"
    /\ last.inserted > 0
    /\ Len(db) > Len(last.before)

-----------------------------------------------------------------------------
(* Properties of the upload pipeline.                                      *)

\* the files of a batch whose text a run obtained
Obtained(batch, fails) ==
    {f \in batch : Lower(f.ext) = ".txt" \/ (Lower(f.ext) \in OcrSuffixes /\ f \notin fails)}

\* C1: when process_uploaded_statement_files runs twice in succession over
\* the same files (the second run obtaining text from no file the first
\* did not), the second run inserts no record: the record count is what it
\* was after the first run.
C1_SecondRunInsertsNothing ==
    (/\ last.op = "upload" /\ prev.op = "upload"
     /\ prev.batch = last.batch
     /\ Obtained(last.batch, last.fails) \subseteq Obtained(prev.batch, prev.fails))
    => (last.inserted = 0 /\ Len(db) = Len(last.before))

\* a second run over the same files whose rows include dated ones, all
\* skipped, the first run having inserted some
C1_Witness ==
    /\ last.op = "upload" /\ prev.op = "upload"
    /\ prev.batch = last.batch /\ prev.fails = {} /\ last.fails = {}
    /\ \E i \in 1..Len(last.rows) : last.rows[i].Date # NoDate
    /\ last.inserted = 0
    /\ \E i \in 1..Len(db) : db[i].is_transfer

\* C5: a file whose bytes already produced an OCR-text artifact in an
\* earlier run is skipped by intake: the OCR tool is not invoked for it and
\* its artifact is not written again.
C5_KnownBytesSkipped ==
    last.op = "upload" =>
        \A f \in last.batch :
            (Lower(f.ext) \in OcrSuffixes /\ f.bytes \in last.known)
            => (f \notin last.invoked /\ ArtifactName(f) \notin last.written)

\* a run has OCR'd and rewritten the artifact of a file whose bytes had
\* produced an artifact in an earlier run
C5_Witness ==
    /\ last.op = "upload"
    /\ \E f \in last.batch :
          /\ f.bytes \in last.known
          /\ f \in last.invoked
          /\ ArtifactName(f) \in last.written
          /\ ArtifactName(f) \in artifacts

\* C6: when main is re-run to completion over the same files after a run
\* that stopped between files or failed, every dated row of every file is
\* stored.
C6_ResumePersistsEveryFile ==
    (/\ last.op = "main" /\ prev.op = "main"
     /\ prev.batch = last.batch
     /\ (prev.stopped \/ prev.raised)
     /\ ~last.stopped)
    => \A f \in last.batch : \A i \in 1..Len(RowsOfFile(f)) :
           LET r == NormalizeRow(RowsOfFile(f)[i], "Screenshot OCR", "")
           IN  r.date # NoDate => WithKey(db, KeyOfRow(r)) # {}

\* main failed after recording the checksums, and the re-run found nothing
\* new: the files' rows are in no record
C6_Witness ==
    /\ last.op = "main" /\ prev.op = "main"
    /\ prev.batch = last.batch
    /\ prev.raised
    /\ ~last.stopped /\ ~last.raised
    /\ {f.bytes : f \in last.batch} \subseteq last.known
    /\ db = <<>>

\* C7: an OCR failure for one file does not make the run raise; every
\* other supported file is still OCR'd or copied, and its rows are handed to
\* import_ocr_rows.
C7_FailureConfinedToFile ==
    last.op = "upload" =>
        /\ ~last.raised
        /\ \A f \in Obtained(last.batch, last.fails) :
              /\ Lower(f.ext) \in OcrSuffixes => f \in last.invoked
              /\ ArtifactName(f) \in last.written
              /\ \A i \in 1..Len(RowsOfFile(f)) :
                    \E j \in 1..Len(last.handed) : last.handed[j] = RowsOfFile(f)[i]

\* a run in which one file failed and a file sorted after it gave rows that
\* were imported
C7_Witness ==
    /\ last.op = "upload"
    /\ \E f \in last.fails : \E g \in Obtained(last.batch, last.fails) :
          /\ g.rank > f.rank
          /\ RowsOfFile(g) # <<>>
          /\ \E j \in 1..Len(last.handed) : last.handed[j] = RowsOfFile(g)[1]
    /\ last.inserted > 0

-----------------------------------------------------------------------------
(* Properties of the amount parsers.                                       *)

\* C8: parse_amount_token gives -m for every token that writes magnitude m
\* with one or more negative markers (leading minus, trailing minus,
\* parentheses, with or without '$' and thousands separators), and +m for
\* a token with none.
C8_MarkersComposeToOneSign ==
    (res.done /\ res.fn = "parse_amount_token") =>
        res.out = (IF tok.markers > 0 THEN Num(0 - tok.mag) ELSE Num(tok.mag))

\* the parenthesised form with the '$' in front gives no value
C8_Witness ==
    /\ res.done /\ res.fn = "parse_amount_token"
    /\ tok.text = "$(68.02)"
    /\ res.out = NotANumber

\* C9: both parse_signed_amount implementations give -54.10 for token 54.10
\* with context CARD PURCHASE AMAZON and +1200.00 for token 1200.00 with
\* context DIRECT DEPOSIT PAYROLL.
C9_InferenceExamples ==
    (res.done /\ res.fn # "parse_amount_token") =>
        /\ (tok.text = "54.10" /\ ctx = "CARD PURCHASE AMAZON") => res.out = Num(-5410)
        /\ (tok.text = "1200.00" /\ ctx = "DIRECT DEPOSIT PAYROLL") => res.out = Num(120000)

\* the legacy implementation makes the payroll deposit negative
C9_Witness ==
    /\ res.done /\ res.fn = "ocr_pipeline.parse_signed_amount"
    /\ tok.text = "1200.00" /\ ctx = "DIRECT DEPOSIT PAYROLL"
    /\ res.out = Num(-120000)

\* C10: in both implementations a token with a leading '-' or enclosing
\* parentheses gives a negative value, and a token with a leading '+' gives
\* a positive value, whatever the context.
C10_ExplicitSignTrusted ==
    (res.done /\ res.fn # "parse_amount_token" /\ tok.dollar = "none") =>
        /\ tok.shape \in {"-m", "(m)"} => (res.out.ok /\ res.out.v < 0)
        /\ tok.shape = "+m" => (res.out.ok /\ res.out.v > 0)

\* direction_rules gives a positive value for a parenthesised token
C10_Witness ==
    /\ res.done /\ res.fn = "direction_rules.parse_signed_amount"
    /\ tok.text = "(68.02)" /\ ctx = "Late Fee"
    /\ res.out = Num(6802)

-----------------------------------------------------------------------------
(* The parsers over one OCR text file.                                     *)

\* lines of OCR text
LinePool ==
    {"01/05/2025 AMAZON 12.50",
     "01/05/2025 COFFEE SHOP 0.00",
     "Total due $42.10",
     "PAYROLL DEPOSIT 1200.00",
     "01/06/2025 12.50",
     "x 01/07/2025 CARD PURCHASE AMAZON -$12.50 ref",
     "01/08/2025 DIRECT DEPOSIT PAYROLL 1,200.00",
     "13/45/2025 BAD DATE 5.00",
     "",
     "01/09/2025 TRANSFER TO SAVINGS 50.00",
     "01/10/2025 A 1.00 B 2.00",
     "2025-01-11 REFUND -3.00",
     "5.00 01/12/2025 LATE",
     "1/2/25 WHOLE FOODS 7.25",
     "02/30/2025 GAS 20.00",
     "notes only"}

\* lines put after another line in a two-line file
SecondLines ==
    {"Total due $42.10", "PAYROLL DEPOSIT 1200.00", "01/05/2025 AMAZON 12.50", ""}

TextFile(name, lines) == [name |-> name, lines |-> lines]

PayrollLine == "12/22 Millennium Healt Direct Dep PPD ID: 91 1,500.00 2,500.00"

\* Chase statements: the period with two lines across the new year; a
\* payroll line and a zero amount inside the block; a payroll line and no
\* block; a block and no period; months going down and up again; a payroll
\* line alone in the block; two blocks
ChaseTexts ==
    {TextFile("chase_ocr.txt", <<ChasePeriod, ChaseStart,
                                 "12/20 Card Purchase AMAZON -12.50 1,000.00",
                                 "01/05 ATM Withdrawal 40.00 960.00", ChaseEnd>>),
     TextFile("chase_ocr.txt", <<ChasePeriod, ChaseStart, PayrollLine,
                                 "01/05 ADJUSTMENT 0.00 2,500.00", ChaseEnd>>),
     TextFile("chase_ocr.txt", <<ChasePeriod, PayrollLine>>),
     TextFile("chase_ocr.txt", <<ChaseStart, "03/04 GROCERY 5.00 6.00">>),
     TextFile("chase_ocr.txt", <<ChasePeriod, ChaseStart, "12/20 A 1.00 2.00",
                                 "notes", "01/05 B 1.00 2.00", "12/30 C 3.00 4.00",
                                 ChaseEnd, "01/07 D 1.00 2.00">>),
     TextFile("chase_ocr.txt", <<ChasePeriod, ChaseStart, PayrollLine, ChaseEnd>>),
     TextFile("chase_ocr.txt", <<ChaseStart, "03/04 GROCERY 5.00 6.00", ChaseEnd, "notes",
                                 ChaseStart, "03/06 GAS 7.00 8.00", ChaseEnd>>)}

CaponePayments == "JONATHAN KENDALL #0728: Payments, Credits and Adjustments"
CaponeSpend == "JONATHAN KENDALL #0728: Transactions"

\* Capital One statements: both tables, a zero amount; the header in
\* another case; sign markers and keywords against the table
CaponeTexts ==
    {TextFile("capone_ocr.txt", <<CaponeHeader, "Dec 10, 2024 - Jan 09, 2025",
                                  CaponePayments, "Dec 15 Dec 16 MOBILE PYMT - $50.00",
                                  CaponeSpend, "Dec 20 Dec 21 AMAZON $12.50",
                                  "Jan 05 Jan 06 STARBUCKS $0.00",
                                  "Total Fees for This Period $0.00",
                                  "Jan 07 Jan 08 AFTER $1.00">>),
     TextFile("capone_ocr.txt", <<Lower(CaponeHeader), CaponeSpend,
                                  "Dec 20 Dec 21 AMAZON $12.50">>),
     TextFile("capone_ocr.txt", <<CaponeHeader, "Dec 10, 2024 - Jan 09, 2025",
                                  CaponePayments, "Dec 15 Dec 16 PURCHASE ADJUSTMENT -$5.00",
                                  CaponeSpend, "Nov 30 Dec 11 REFUND CREDIT -$7.00",
                                  "Jan 02 Jan 03 DEPOSIT RETURNED ($3.00)">>)}

PaypalAccount == "PayPal Credit Account number ending 1234"

\* PayPal Credit statements: sections and a continuation line; details
\* under no section; the detail table without the issuer's name; a
\* description that holds the word of a section header, and the end of the
\* table; continuation lines after rows of two sections
PaypalTexts ==
    {TextFile("paypal_ocr.txt", <<PaypalAccount, "Payment due date 05/10/2025",
                                  "Transaction details",
                                  "Date Reference # Description Amount",
                                  "Payments -$29.00",
                                  "04/15 8521 PAYMENT - THANK YOU -$29.00",
                                  "Purchases and Other Debits $49.03",
                                  "03/30 85AB PAYPAL PURCHASE $30.77", "ALIPAYUSINC">>),
     TextFile("paypal_ocr.txt", <<PaypalAccount, "Payment due date 01/10/2025",
                                  "Transaction details", "Date Amount",
                                  "12/20 R1 CASHBACK REWARD 5.00", "01/02 R2 NOTHING 0.00",
                                  "01/04 R4 STORE -7.00">>),
     TextFile("stmt_ocr.txt", <<"Transaction details", "Date Amount",
                                "01/04 R4 STORE 7.00">>),
     TextFile("paypal_ocr.txt", <<PaypalAccount, "Payment due date 02/10/2025",
                                  "Transaction details",
                                  "Date Reference # Description Amount",
                                  "Purchases and Other Debits $47.00",
                                  "12/30 R6 BOOK REFUND -$5.00",
                                  "12/31 R7 AUTO PAYMENTS PLUS $12.00",
                                  "01/03 R8 STORE $30.00",
                                  "Total Fees Charged This Period $29.00",
                                  "01/12 R9 LATE FEE $29.00",
                                  "Cardholder news and information",
                                  "01/13 R0 AFTER $1.00">>),
     TextFile("paypal_ocr.txt", <<PaypalAccount, "Payment due date 05/10/2025",
                                  "Transaction details",
                                  "Date Reference # Description Amount",
                                  "Payments -$29.00",
                                  "04/15 8521 PAYMENT - THANK YOU -$29.00", "  ONLINE  ",
                                  "Purchases and Other Debits $49.03",
                                  "03/30 85AB PAYPAL PURCHASE $30.77", "ALIPAYUSINC",
                                  "ORDER 77", "", "04/01 85AC BOOKS $18.26">>)}

\* the text files handed to the parsers
TextPool ==
    {TextFile("stmt_ocr.txt", <<l>>) : l \in LinePool}
      \cup {TextFile("stmt_ocr.txt", <<l, m>>) : l \in LinePool, m \in SecondLines}
      \cup ChaseTexts \cup CaponeTexts \cup PaypalTexts

\* date.today() when a parser runs
Todays == {[year |-> 2025, month |-> 12], [year |-> 2026, month |-> 1]}

\* what a layout parser returned: its rows and, if it tells, the lines
\* they were read from
Returned(fn, rows, origin) ==
    [done |-> TRUE, fn |-> fn, collect |-> FALSE, rows |-> rows, rejected |-> <<>>,
     per |-> <<>>, origin |-> origin]

ParseInit ==
    /\ DbInit
    /\ AmtIdle
    /\ ocr_text \in TextPool
    /\ parsed = NoParse

\* _parse_ocr_text_file(path, "Statement OCR", collect_rejected), as
\* process_statement_files calls it
ParseOcrTextFile ==
    \E collect \in BOOLEAN :
    \E out \in {process_statement_files(ocr_text, collect)} :
        /\ ~parsed.done
        /\ parsed' = [done |-> TRUE, fn |-> "_parse_ocr_text_file", collect |-> collect,
                      rows |-> out.rows, rejected |-> out.rejected, per |-> out.per,
                      origin |-> <<>>]
        /\ UNCHANGED <<dbVars, amtVars, ocr_text>>

\* _parse_chase_transaction_detail(path)
ParseChaseTransactionDetail ==
    \E today \in Todays :
    \E out \in {ChaseDetail(ocr_text, today.year)} :
        /\ ~parsed.done
        /\ parsed' = Returned("_parse_chase_transaction_detail", out.rows, out.origin)
        /\ UNCHANGED <<dbVars, amtVars, ocr_text>>

\* _parse_capone_0728_statement(txt_path)
ParseCaponeStatement ==
    \E today \in Todays :
    \E rows \in {_parse_capone_0728_statement(ocr_text, today)} :
        /\ ~parsed.done
        /\ parsed' = Returned("_parse_capone_0728_statement", rows, <<>>)
        /\ UNCHANGED <<dbVars, amtVars, ocr_text>>

\* _parse_paypal_credit_detail(path)
ParsePaypalCreditDetail ==
    \E today \in Todays :
    \E rows \in {_parse_paypal_credit_detail(ocr_text, today)} :
        /\ ~parsed.done
        /\ parsed' = Returned("_parse_paypal_credit_detail", rows, <<>>)
        /\ UNCHANGED <<dbVars, amtVars, ocr_text>>

NextParse ==
    \/ ParseOcrTextFile
    \/ ParseChaseTransactionDetail
    \/ ParseCaponeStatement
    \/ ParsePaypalCreditDetail

SpecParse == ParseInit /\ [][NextParse]_vars

-----------------------------------------------------------------------------
(* Properties of the parsers.                                              *)

\* the token of a line the generic normalizer reads the amount from
AmountToken(line) == Split(line)[LastAmountIdx(Split(line))]

\* the token carries no sign marker
Unsigned(t) == \A i \in 1..Len(t) : Char(t, i) \notin {"-", "+", "(", ")", UnicodeMinus}

\* the description holds no debit-leaning and no credit-leaning keyword of
\* either keyword list of the repository
NoKeyword(description) ==
    /\ ~AnyWordIn(Upper(description), DEBIT_WORDS)
    /\ ~AnyWordIn(Upper(description), CREDIT_WORDS)
    /\ ~AnyWordIn(NormalizedDescription(description), DEBIT_HINT_WORDS)
    /\ ~AnyWordIn(NormalizedDescription(description), CREDIT_HINT_WORDS)

\* the lines of ocr_text for which the generic parser returned a row
RowLines ==
    {i \in 1..Len(parsed.per) :
        parsed.fn = "_parse_ocr_text_file" /\ parsed.per[i].out = "row"}

\* C11: absolute fallback in the generic line normalizer: a line whose
\* amount token has no sign marker and whose description contains no
\* debit-leaning and no credit-leaning keyword yields a row with a negative
\* Amount and Direction 'debit'.
C11_FallbackIsDebit ==
    \A i \in RowLines :
        LET r == parsed.per[i].row[1]
        IN  (Unsigned(AmountToken(ocr_text.lines[i])) /\ NoKeyword(r.Description))
            => (r.Amount < 0 /\ r.Direction = "debit")

\* an unsigned, non-zero amount on a line without keywords came out
\* positive and labelled credit
C11_Witness ==
    \E i \in RowLines :
        LET r == parsed.per[i].row[1]
        IN  /\ Unsigned(AmountToken(ocr_text.lines[i]))
            /\ NoKeyword(r.Description)
            /\ r.Amount > 0 /\ r.Direction = "credit"

\* C12: every row emitted by the generic normalizer, the Chase
\* transaction-detail parser, the Capital One parser and the PayPal Credit
\* parser has a Direction that agrees with the sign of its Amount: 'debit'
\* only when Amount < 0 and 'credit' only when Amount > 0; only rows tagged
\* 'transfer' are exempt, and a row whose Amount is 0 is never labelled
\* debit or credit.
C12_DirectionAgreesWithSign ==
    \A j \in 1..Len(parsed.rows) :
        /\ parsed.rows[j].Direction \in {"debit", "credit", "transfer"}
        /\ parsed.rows[j].Direction = "debit" => parsed.rows[j].Amount < 0
        /\ parsed.rows[j].Direction = "credit" => parsed.rows[j].Amount > 0

\* a parser returned a row whose Amount is 0 and whose Direction is debit
\* or credit
C12_Witness ==
    \E j \in 1..Len(parsed.rows) :
        /\ parsed.rows[j].Amount = 0
        /\ parsed.rows[j].Direction \in {"debit", "credit"}

\* the calendar year a date falls in
InYear(date, y) == DateOf(y, 1, 1) <= date /\ date <= DateOf(y, 12, 31)

\* the month a transaction line writes before its '/'
LineMonth(i) == DigitsVal(SubSeq(Strip(ocr_text.lines[i]), 1, 2))

\* the lines the returned rows were read from
RowOrigins == {parsed.origin[j] : j \in 1..Len(parsed.origin)}

\* the lines whose month is lower than the month of the line read before
MonthDecreases ==
    {o \in RowOrigins :
        \E p \in RowOrigins :
            /\ p < o
            /\ \A q \in RowOrigins : q < o => q <= p
            /\ LineMonth(o) < LineMonth(p)}

\* C15: under a statement period 'Month DD, Y1 through Month DD, Y2' the
\* rows _parse_chase_transaction_detail reads from lines before the first
\* decrease of the month number are dated in Y1, and the rows read from
\* that line onward are dated in Y2.
C15_YearRollover ==
    (/\ parsed.done /\ parsed.fn = "_parse_chase_transaction_detail"
     /\ _extract_statement_years(ocr_text.lines)[1] # 0
     /\ _extract_statement_years(ocr_text.lines)[2] # 0)
    => \A j \in 1..Len(parsed.rows) :
           InYear(parsed.rows[j].Date,
                  IF \E d \in MonthDecreases : d <= parsed.origin[j]
                  THEN _extract_statement_years(ocr_text.lines)[2]
                  ELSE _extract_statement_years(ocr_text.lines)[1])

\* the payroll line of December, read before the month decreases, has one
\* row dated in Y1 and a second row dated in Y2
C15_Witness ==
    /\ parsed.done /\ parsed.fn = "_parse_chase_transaction_detail"
    /\ _extract_statement_years(ocr_text.lines) = <<2023, 2024>>
    /\ \E j, k \in 1..Len(parsed.rows) :
          /\ parsed.origin[j] = parsed.origin[k]
          /\ \A d \in MonthDecreases : parsed.origin[j] < d
          /\ parsed.rows[j].Date = DateOf(2023, 12, 22)
          /\ parsed.rows[k].Date = DateOf(2024, 12, 22)

\* the line has a token the generic normalizer takes for an amount
MoneyShaped(line) == \E k \in 1..Len(Split(line)) : amount_re(Split(line)[k])

\* the rejected entries recorded for line i
RejectedFor(i) == {k \in 1..Len(parsed.rejected) : parsed.rejected[k].line_no = i}

\* C16: when _parse_ocr_text_file runs with collect_rejected=True, every
\* non-blank line that has a money-shaped token and yields no row produces
\* exactly one rejected entry, with reason 'no_generic_match' and the
\* line's file and number; a line that yields a row produces none.
C16_RejectedLineCapture ==
    (parsed.done /\ parsed.fn = "_parse_ocr_text_file" /\ parsed.collect)
    => \A i \in 1..Len(ocr_text.lines) :
           /\ parsed.per[i].out = "row" => RejectedFor(i) = {}
           /\ (/\ Strip(ocr_text.lines[i]) # ""
               /\ MoneyShaped(ocr_text.lines[i])
               /\ parsed.per[i].out # "row")
              => /\ Cardinality(RejectedFor(i)) = 1
                 /\ \A k \in RejectedFor(i) :
                       parsed.rejected[k] =
                           [source_file |-> ocr_text.name, line_no |-> i,
                            raw_text |-> ocr_text.lines[i], reason |-> "no_generic_match"]

\* collecting, a line with the amount 1200.00 and no date gave neither a
\* row nor a rejected entry
C16_Witness ==
    /\ parsed.done /\ parsed.fn = "_parse_ocr_text_file" /\ parsed.collect
    /\ \E i \in 1..Len(ocr_text.lines) :
          /\ ocr_text.lines[i] = "PAYROLL DEPOSIT 1200.00"
          /\ MoneyShaped(ocr_text.lines[i])
          /\ parsed.per[i].out = "none"
          /\ RejectedFor(i) = {}

\* the tokens of a line that match the date pattern
DateTokens(t) == {i \in 1..Len(t) : date_re(t[i])}

\* the first of them
FirstDate(t) == CHOOSE d \in DateTokens(t) : \A e \in DateTokens(t) : d <= e

\* the tokens after the first date token that match the amount pattern
AmountsAfter(t) == {j \in 1..Len(t) : j > FirstDate(t) /\ amount_re(t[j])}

\* the last of them
LastAmount(t) == CHOOSE a \in AmountsAfter(t) : \A b \in AmountsAfter(t) : b <= a

\* a date token, an amount token after it, and a token between the two
HasThreeParts(t) ==
    /\ DateTokens(t) # {}
    /\ AmountsAfter(t) # {}
    /\ LastAmount(t) - FirstDate(t) > 1

\* a line with the three parts whose date token, if dated is asked for, is
\* a date of the calendar
Accepted(t, dated) ==
    HasThreeParts(t) /\ (dated => ParseDateToken(t[FirstDate(t)]) # NoDate)

\* every line gives a row exactly when its tokens are accepted, and the
\* row's description is the tokens between the first date token and the
\* last amount token
RowExactlyWhen(dated) ==
    (parsed.done /\ parsed.fn = "_parse_ocr_text_file")
    => \A i \in 1..Len(ocr_text.lines) :
           LET t == Split(ocr_text.lines[i])
           IN  IF Accepted(t, dated)
               THEN /\ parsed.per[i].out = "row"
                    /\ parsed.per[i].row[1].Description =
                           Join(SubSeq(t, FirstDate(t) + 1, LastAmount(t) - 1))
               ELSE parsed.per[i].out # "row"

\* C19: _normalize_row returns no row exactly when the line has no token
\* matching a date pattern, or no token matching the amount pattern after
\* the first date token, or no token strictly between the first date token
\* and the last amount token, or when its first date token is not a date of
\* the calendar; in every other case it returns one row whose description
\* is exactly the tokens strictly between those two tokens.
C19_RejectsExactlyWhen == RowExactlyWhen(TRUE)

\* C19 as stated, without the case of a date token that is no calendar
\* date
C19_AsStated == RowExactlyWhen(FALSE)

\* one line with the three parts was rejected for its date, another gave a
\* row with the tokens between as its description
C19_Witness ==
    /\ parsed.done /\ parsed.fn = "_parse_ocr_text_file"
    /\ \E i, j \in 1..Len(ocr_text.lines) :
          /\ Accepted(Split(ocr_text.lines[i]), FALSE)
          /\ ~Accepted(Split(ocr_text.lines[i]), TRUE)
          /\ parsed.per[i].out # "row"
          /\ Accepted(Split(ocr_text.lines[j]), TRUE)
          /\ parsed.per[j].out = "row"
          /\ parsed.per[j].row[1].Description = "AMAZON"

\* the text holds the distinguishing signature of the parser that ran
HasSignature ==
    IF parsed.fn = "_parse_chase_transaction_detail"
    THEN ContainsLine(ocr_text.lines, "*start*transaction detail")
    ELSE IF parsed.fn = "_parse_capone_0728_statement"
    THEN ContainsLine(ocr_text.lines, CaponeHeader)
    ELSE /\ ContainsLine(UpperLines(ocr_text.lines), "PAYPAL")
         /\ ContainsLine(UpperLines(ocr_text.lines), "TRANSACTION DETAILS")
         /\ ContainsLine(UpperLines(ocr_text.lines), "ACCOUNT NUMBER")

LayoutParsers ==
    {"_parse_chase_transaction_detail", "_parse_capone_0728_statement",
     "_parse_paypal_credit_detail"}

\* C20: each layout-specific parser returns no row for a file whose text
\* does not contain that parser's signature: the '*start*transaction
\* detail' marker for Chase, the card header phrase for Capital One,
\* 'PayPal' with 'Transaction details' and 'Account number' for PayPal.
C20_NoSignatureNoRows ==
    (parsed.done /\ parsed.fn \in LayoutParsers /\ ~HasSignature)
    => parsed.rows = <<>>

\* the Chase parser returned a row for a text without the marker
C20_Witness ==
    /\ parsed.done /\ parsed.fn = "_parse_chase_transaction_detail"
    /\ ~HasSignature
    /\ ocr_text.lines = <<ChasePeriod, PayrollLine>>
    /\ Len(parsed.rows) = 1
    /\ parsed.rows[1].Date = DateOf(2023, 12, 22)

-----------------------------------------------------------------------------
(* Properties of the rows the pipeline stores.                             *)

\* C13: every record process_uploaded_statement_files stores through
\* import_ocr_rows has a direction that agrees with the sign of its amount:
\* 'debit' only with a negative amount, 'credit' only with a positive one,
\* or the 'transfer' tag; this includes the records read by the Chase
\* dashboard parser, whose rows carry no Direction.
C13_StoredDirectionAgreesWithSign ==
    \A i \in 1..Len(db) :
        /\ db[i].direction \in {"debit", "credit", "transfer"}
        /\ db[i].direction = "debit" => db[i].amount < 0
        /\ db[i].direction = "credit" => db[i].amount > 0

\* a dashboard row with a positive amount has been stored as a debit
C13_Witness ==
    /\ last.op = "upload"
    /\ \E i \in LastAdded :
          /\ db[i].source_system = "ChaseScreenshot"
          /\ db[i].amount > 0
          /\ db[i].direction = "debit"

\* the rows of last.handed that the generic normalizer read from file f
GenericHanded(f) ==
    {j \in 1..Len(last.handed) :
        \E i \in 1..Len(GenericRows(f)) : last.handed[j] = GenericRows(f)[i]}

\* C14: for every text file of a run of process_uploaded_statement_files,
\* if the layout-specific parser returns at least one row for the file, no
\* row of the generic normalizer for that file is handed to import_ocr_rows.
C14_OneParserPerFile ==
    last.op = "upload" =>
        \A f \in Obtained(last.batch, last.fails) :
            ChaseRows(f) # <<>> => GenericHanded(f) = {}

\* one line of a file was read by both parsers, and both rows were stored
C14_Witness ==
    /\ last.op = "upload"
    /\ \E f \in Obtained(last.batch, last.fails) :
       \E c \in 1..Len(ChaseRows(f)) : \E g \in 1..Len(GenericRows(f)) :
          /\ ChaseRows(f)[c].raw_line = DashPurchase
          /\ GenericRows(f)[g].Merchant = "Card Purchase AMAZON"
          /\ GenericRows(f)[g].Date = ChaseRows(f)[c].date
          /\ GenericRows(f)[g].Amount = ChaseRows(f)[c].amount
          /\ \E i, j \in LastAdded :
                /\ db[i].merchant = DashPurchase
                /\ db[j].merchant = "Card Purchase AMAZON"

SkippedFiles ==
    {f \in last.batch :
        /\ Lower(f.ext) \in OcrSuffixes \cup {".txt"}
        /\ f \notin last.fails
        /\ ArtifactName(f) \notin last.written}

\* C18: in the stats process_uploaded_statement_files returns, saved_files
\* is the number of input files whose OCR-text artifact this run produced,
\* skipped_duplicates is the number of input files skipped as duplicates,
\* and added_transactions is the number of records this run inserted.
C18_StatsCountWhatTheyName ==
    last.op = "upload" =>
        /\ last.saved = Cardinality(Obtained(last.batch, last.fails))
        /\ last.skipped = Cardinality(SkippedFiles)
        /\ last.inserted = Len(db) - Len(last.before)

\* a second run over the same files skipped no file and reports a
\* non-zero skipped_duplicates: the rows import_ocr_rows skipped
C18_Witness ==
    /\ last.op = "upload" /\ prev.op = "upload"
    /\ prev.batch = last.batch
    /\ SkippedFiles = {}
    /\ last.saved = Cardinality(last.batch)
    /\ last.inserted = 0
    /\ last.skipped = Len(last.handed)
    /\ last.skipped > 0

-----------------------------------------------------------------------------
(* Properties of the layout parsers.                                        *)

\* the lines of ocr_text that payroll_re matches
PayrollLines == {i \in 1..Len(ocr_text.lines) : PayrollAmounts(ocr_text.lines[i]) # <<>>}

\* the returned rows read from line i
RowsFrom(i) == {j \in 1..Len(parsed.origin) : parsed.origin[j] = i}

\* the lines the detail loop reads
BlockLines == {_iter_transaction_lines(ocr_text.lines)[k] :
                   k \in 1..Len(_iter_transaction_lines(ocr_text.lines))}

\* C21: the secondary payroll pass of _parse_chase_transaction_detail
\* de-duplicates against the rows of the main pass: every 'Millennium Healt
\* Direct Dep' line of the file, inside the transaction-detail block or
\* outside it, has exactly one row in the parser's output, whatever the
\* statement period and the position of the line in the block.
C21_OnePayrollRowPerLine ==
    (parsed.done /\ parsed.fn = "_parse_chase_transaction_detail")
    => \A i \in PayrollLines : Cardinality(RowsFrom(i)) = 1

\* a payroll line inside the block, already a row of the main pass, has a
\* second row from the payroll pass
C21_Witness ==
    /\ parsed.done /\ parsed.fn = "_parse_chase_transaction_detail"
    /\ \E i \in PayrollLines \cap BlockLines :
          \E j, k \in RowsFrom(i) :
              /\ j < k
              /\ parsed.rows[j].Category = ""
              /\ parsed.rows[k].Category = "Income:Payroll"
              /\ parsed.rows[j].Amount = parsed.rows[k].Amount


\* where the walk over the PayPal detail table starts: the line after the
\* column header that follows 'Transaction details'
PaypalStart ==
    FirstLineWith(ocr_text.lines,
                  FirstLineWith(ocr_text.lines, 1, <<"Transaction details">>) + 1,
                  <<"Date", "Amount">>) + 1

\* the walk of _parse_paypal_credit_detail after the first k lines of
\* ocr_text; the statement date does not bear on which rows there are
PaypalAfter(k) ==
    PaypalFrom([rows |-> <<>>, section |-> "", stop |-> FALSE],
               SubSeq(ocr_text.lines, 1, k), PaypalStart,
               [year |-> 2025, month |-> 1], ocr_text.name)

\* the line the j-th row of the PayPal parser was read from
PaypalOrigin(j) ==
    CHOOSE k \in 1..Len(ocr_text.lines) :
        Len(PaypalAfter(k).rows) >= j /\ Len(PaypalAfter(k - 1).rows) < j

\* the walk of _parse_capone_0728_statement after the first k lines
CaponeAfter(k) ==
    CaponeFrom([rows |-> <<>>, mode |-> ""], SubSeq(ocr_text.lines, 1, k), 1,
               CaponePeriodFrom(ocr_text.lines, 1, [year |-> 2025, month |-> 1]),
               [year |-> 2025, month |-> 1], ocr_text.name)

\* the line the j-th row of the Capital One parser was read from
CaponeOrigin(j) ==
    CHOOSE k \in 1..Len(ocr_text.lines) :
        Len(CaponeAfter(k).rows) >= j /\ Len(CaponeAfter(k - 1).rows) < j

\* the last line of the set before line o, 0 if there is none
LastBefore(o, headers) ==
    IF \E h \in headers : h < o
    THEN CHOOSE h \in headers : h < o /\ \A g \in headers : g < o => g <= h
    ELSE 0

\* the lines of ocr_text that are the title of a Capital One table
CaponeTitles ==
    {h \in 1..Len(ocr_text.lines) :
        \/ Contains(ocr_text.lines[h], CaponePayments)
        \/ Contains(ocr_text.lines[h], CaponeSpend)}

\* the Capital One table line o lies in
CaponeTableOf(o) ==
    IF LastBefore(o, CaponeTitles) = 0 THEN ""
    ELSE IF Contains(ocr_text.lines[LastBefore(o, CaponeTitles)], CaponePayments)
    THEN "payments"
    ELSE "spend"

\* the section headers of the PayPal table: the lines that name a section
\* and are no transaction line
PaypalHeaders ==
    {h \in PaypalStart..Len(ocr_text.lines) :
        /\ ~detail_re(Split(ocr_text.lines[h]))
        /\ _update_section(Upper(ocr_text.lines[h])) # ""}

\* the PayPal section line o lies in, "" before the first header
PaypalSectionOf(o) ==
    IF LastBefore(o, PaypalHeaders) = 0 THEN ""
    ELSE _update_section(Upper(ocr_text.lines[LastBefore(o, PaypalHeaders)]))

\* C22: in the Capital One and PayPal Credit parsers the sign of every
\* emitted Amount is fixed by the table section the line lies in: rows
\* under 'Payments, Credits and Adjustments' (Capital One) or 'Payments'
\* (PayPal) have Amount >= 0, rows under 'Transactions' (Capital One) or
\* purchases, fees and interest (PayPal) have Amount <= 0, whatever sign
\* marker the amount token carries and whatever keywords the description
\* contains.
C22_SignFixedBySection ==
    /\ (parsed.done /\ parsed.fn = "_parse_capone_0728_statement")
       => \A j \in 1..Len(parsed.rows) :
              /\ CaponeTableOf(CaponeOrigin(j)) = "payments" => parsed.rows[j].Amount >= 0
              /\ CaponeTableOf(CaponeOrigin(j)) = "spend" => parsed.rows[j].Amount <= 0
    /\ (parsed.done /\ parsed.fn = "_parse_paypal_credit_detail")
       => \A j \in 1..Len(parsed.rows) :
              /\ PaypalSectionOf(PaypalOrigin(j)) = "payments" => parsed.rows[j].Amount >= 0
              /\ PaypalSectionOf(PaypalOrigin(j)) \in {"purchases", "fees", "interest"}
                 => parsed.rows[j].Amount <= 0

\* a PayPal row under the purchases header, after a transaction line whose
\* description holds the word PAYMENTS, came out positive
C22_Witness ==
    /\ parsed.done /\ parsed.fn = "_parse_paypal_credit_detail"
    /\ \E j \in 1..Len(parsed.rows) :
          /\ PaypalSectionOf(PaypalOrigin(j)) = "purchases"
          /\ parsed.rows[j].Amount > 0
          /\ \E h \in (LastBefore(PaypalOrigin(j), PaypalHeaders) + 1)..(PaypalOrigin(j) - 1) :
                /\ detail_re(Split(ocr_text.lines[h]))
                /\ Contains(Upper(ocr_text.lines[h]), "PAYMENTS")

-----------------------------------------------------------------------------
(* The pure functions called on their own: infer_direction_sign,           *)
(* _month_year_for_abbrev under a statement period, _paypal_txn_iso_date   *)
(* under a payment due date.                                               *)

\* descriptions handed to infer_direction_sign: those of the amount
\* functions and one with as many debit as credit hint words
SignContexts == Contexts \cup {"PAYMENT REFUND"}

\* balances handed to infer_direction_sign: absent, rising, falling, equal
SignBalances == BalanceHints \cup {[has |-> TRUE, before |-> 10000, after |-> 10000]}

\* statement period lines of Capital One statements
PeriodLines ==
    {"Dec 10, 2024 - Jan 09, 2025", "Nov 12, 2024 - Dec 11, 2024",
     "January 10, 2025 - February 09, 2025", "Sept 10, 2024 - Oct 09, 2024",
     "Dec 01, 2024 - Dec 31, 2024", "Dec 10, 2024 - Dec 09, 2025",
     "May 10, 2025 - Jun 09, 2025", "Oct 15, 2024 - Feb 14, 2025"}

\* month words of Capital One transaction lines
MonthWords ==
    {"Jan", "Feb", "Mar", "Apr", "May", "Jun", "Jul", "Aug", "Sep", "Oct", "Nov", "Dec",
     "Sept", "DECEMBER", "Foo"}

\* f"{month:02d}" for the months
TwoDigits == <<"01", "02", "03", "04", "05", "06", "07", "08", "09", "10", "11", "12">>

\* infer_direction_sign(amount_raw, DirectionContext(description, before, after))
InferDirectionSignCall ==
    \E t \in Tokens, c \in SignContexts, b \in SignBalances :
        /\ ~res.done
        /\ tok' = t
        /\ ctx' = c
        /\ res' = [done |-> TRUE, fn |-> "infer_direction_sign", hint |-> b, calls |-> 1,
                   prior |-> 0,
                   out |-> InferDirectionSign(t.text, c, b.has, b.before, b.after)]
        /\ UNCHANGED <<dbVars, parseVars>>

\* the same call made once more
InferDirectionSignAgain ==
    /\ res.done /\ res.fn = "infer_direction_sign" /\ res.calls = 1
    /\ res' = [res EXCEPT !.calls = 2, !.prior = res.out,
                          !.out = InferDirectionSign(tok.text, ctx, res.hint.has,
                                                     res.hint.before, res.hint.after)]
    /\ UNCHANGED <<dbVars, tok, ctx, parseVars>>

\* _month_year_for_abbrev(mon_abbrev) under the period of a statement
MonthYearForAbbrev ==
    \E l \in PeriodLines, mon \in MonthWords, today \in Todays :
        /\ ~res.done
        /\ res' = [done |-> TRUE, fn |-> "_month_year_for_abbrev",
                   period |-> CaponePeriodFrom(<<l>>, 1, today), mon |-> mon,
                   today |-> today,
                   out |-> _month_year_for_abbrev(mon, CaponePeriodFrom(<<l>>, 1, today),
                                                  today)]
        /\ UNCHANGED <<dbVars, tok, ctx, parseVars>>

\* _paypal_txn_iso_date(mm_dd, stmt_year, due_month) with the year and month
\* _extract_paypal_statement_year reads from 'Payment due date MM/DD/YYYY'
PaypalTxnIsoDate ==
    \E d \in 1..12, m \in 1..12, y \in {"2025", "2026"} :
    \E due \in {StatementYearFrom(<<DueLabel \o " " \o TwoDigits[d] \o "/10/" \o y>>, 1,
                                  [year |-> 0, month |-> 0])} :
        /\ ~res.done
        /\ res' = [done |-> TRUE, fn |-> "_paypal_txn_iso_date", due |-> due,
                   mm_dd |-> TwoDigits[m] \o "/15",
                   out |-> _paypal_txn_iso_date(TwoDigits[m] \o "/15", due.year, due.month)]
        /\ UNCHANGED <<dbVars, tok, ctx, parseVars>>

NextFunctions ==
    \/ InferDirectionSignCall
    \/ InferDirectionSignAgain
    \/ MonthYearForAbbrev
    \/ PaypalTxnIsoDate

SpecFunctions == Init /\ [][NextFunctions]_vars

\* the number of a month name of the period, 0 if it is none
MonthNumber(name) == MonthGet(Upper(name), 0)

\* C23: Capital One year resolution: under a statement period with start
\* month S in year Ys and end month E in year Ye, a transaction whose month
\* matches S is dated in Ys, one whose month matches E is dated in Ye, and
\* any other month M is dated in Ye when M < S and Ye > Ys, otherwise in
\* Ys; the resolved year is always Ys or Ye.
C23_CaponeYearResolution ==
    (res.done /\ res.fn = "_month_year_for_abbrev")
    => LET S == MonthNumber(res.period.start_month_name)
           E == MonthNumber(res.period.end_month_name)
           M == MonthNumber(res.mon)
           Ys == res.period.start_year
           Ye == res.period.end_year
       IN  /\ res.out[1] \in {Ys, Ye}
           /\ M # 0 =>
                res.out = <<IF M = S THEN Ys
                            ELSE IF M = E THEN Ye
                            ELSE IF M < S /\ Ye > Ys THEN Ye
                            ELSE Ys,
                            M>>

\* a month that is neither the start nor the end month, below the start
\* month of a period that crosses the new year, was dated in the end year
C23_Witness ==
    /\ res.done /\ res.fn = "_month_year_for_abbrev"
    /\ res.period.start_year < res.period.end_year
    /\ MonthNumber(res.mon) # 0
    /\ MonthNumber(res.mon) \notin {MonthNumber(res.period.start_month_name),
                                    MonthNumber(res.period.end_month_name)}
    /\ MonthNumber(res.mon) < MonthNumber(res.period.start_month_name)
    /\ res.out = <<res.period.end_year, MonthNumber(res.mon)>>


\* C24: PayPal year resolution: for a statement whose 'Payment due date'
\* is in month D of year Y, _paypal_txn_iso_date dates a transaction of
\* month M in year Y - 1 whenever M > D and in year Y otherwise, for every
\* due month D and every transaction month M in 1..12.
C24_PaypalYearResolution ==
    (res.done /\ res.fn = "_paypal_txn_iso_date")
    => InYear(res.out,
              IF DigitsVal(SubSeq(res.mm_dd, 1, 2)) > res.due.month
              THEN res.due.year - 1
              ELSE res.due.year)

\* a December transaction of a statement due in February was dated in the
\* year of the due date
C24_Witness ==
    /\ res.done /\ res.fn = "_paypal_txn_iso_date"
    /\ res.due = [year |-> 2025, month |-> 2]
    /\ res.mm_dd = "12/15"
    /\ res.out = DateOf(2025, 12, 15)


\* how many hint words of a list the normalized description holds
HintScore(description, words) ==
    Cardinality({i \in 1..Len(words) : Contains(JoinSplit(Lower(description)), words[i])})

\* C27: infer_direction_sign, for a token with no sign marker, decides in
\* this order: -1 if the debit keyword score exceeds the credit score, +1
\* if the credit score exceeds the debit score; on a tie (0-0 included) the
\* sign of balance_after - balance_before when both balances are given and
\* the delta is not zero; otherwise -1.  The same arguments always give the
\* same sign.
C27_InferenceOrder ==
    (res.done /\ res.fn = "infer_direction_sign")
    => /\ Unsigned(tok.text)
          => res.out =
                IF HintScore(ctx, DEBIT_HINT_WORDS) > HintScore(ctx, CREDIT_HINT_WORDS) THEN -1
                ELSE IF HintScore(ctx, CREDIT_HINT_WORDS) > HintScore(ctx, DEBIT_HINT_WORDS)
                THEN 1
                ELSE IF res.hint.has /\ res.hint.after > res.hint.before THEN 1
                ELSE IF res.hint.has /\ res.hint.after < res.hint.before THEN -1
                ELSE -1
       /\ res.calls = 2 => res.out = res.prior

\* a description with one debit and one credit hint word, a token without
\* marker and rising balances: the second call gave +1 as the first did
C27_Witness ==
    /\ res.done /\ res.fn = "infer_direction_sign" /\ res.calls = 2
    /\ Unsigned(tok.text)
    /\ HintScore(ctx, DEBIT_HINT_WORDS) = 1 /\ HintScore(ctx, CREDIT_HINT_WORDS) = 1
    /\ res.hint.has /\ res.hint.after > res.hint.before
    /\ res.out = 1


\* the line that ends the PayPal table, past the last line if there is none
PaypalStop ==
    FirstLineWith(ocr_text.lines, PaypalStart, <<"Cardholder news and information">>)

\* a token that reads as an amount
AmountShaped(t) == AmountBody(DropDollar(IF StartsWith(t, "-") THEN SubSeq(t, 2, Len(t)) ELSE t))

\* the continuation lines of the PayPal table: walked, not blank, without a
\* leading MM/DD date, without an amount, no section header, and after at
\* least one row
ContinuationLines ==
    {k \in PaypalStart..(PaypalStop - 1) :
        /\ Strip(ocr_text.lines[k]) # ""
        /\ ~(Len(Strip(ocr_text.lines[k])) >= 5
             /\ MonthDayRe(SubSeq(Strip(ocr_text.lines[k]), 1, 5)))
        /\ \A i \in 1..Len(Split(ocr_text.lines[k])) :
               ~AmountShaped(Split(ocr_text.lines[k])[i])
        /\ _update_section(Upper(ocr_text.lines[k])) = ""
        /\ Len(PaypalAfter(k - 1).rows) > 0}

\* rows with the text appended to the Description and the Merchant of the
\* last one
Appended(rows, text) ==
    [j \in 1..Len(rows) |->
        IF j < Len(rows) THEN rows[j]
        ELSE [rows[j] EXCEPT !.Description = rows[j].Description \o " " \o text,
                             !.Merchant = rows[j].Merchant \o " " \o text]]

\* C25: PayPal continuation lines: while the transaction table is walked,
\* a non-blank line that has no leading MM/DD date and no amount, is not a
\* section header and comes after at least one emitted row creates no new
\* row and is appended, after a space, to the Description and Merchant of
\* the most recently emitted row only; all earlier rows and all other
\* fields of that row are left unchanged.
C25_ContinuationAppends ==
    (parsed.done /\ parsed.fn = "_parse_paypal_credit_detail"
     /\ _is_paypal_credit_statement(ocr_text.lines))
    => /\ \A k \in ContinuationLines :
              PaypalAfter(k).rows = Appended(PaypalAfter(k - 1).rows, Strip(ocr_text.lines[k]))
       /\ Len(parsed.rows) = Len(PaypalAfter(Len(ocr_text.lines)).rows)
       /\ \A j \in 1..Len(parsed.rows) :
              /\ parsed.rows[j].Description
                    = PaypalAfter(Len(ocr_text.lines)).rows[j].Description
              /\ parsed.rows[j].Merchant = PaypalAfter(Len(ocr_text.lines)).rows[j].Merchant

\* two continuation lines after the second row were appended to it, and
\* the first row kept the one line that followed it
C25_Witness ==
    /\ parsed.done /\ parsed.fn = "_parse_paypal_credit_detail"
    /\ Cardinality(ContinuationLines) = 3
    /\ Len(parsed.rows) = 3
    /\ parsed.rows[1].Description = "PAYMENT - THANK YOU ONLINE"
    /\ parsed.rows[2].Description = "PAYPAL PURCHASE ALIPAYUSINC ORDER 77"
    /\ parsed.rows[2].Merchant = "PAYPAL PURCHASE ALIPAYUSINC ORDER 77"
    /\ parsed.rows[3].Description = "BOOKS"

-----------------------------------------------------------------------------
(* The pipeline that records rejected lines:                               *)
(* ocr_pipeline_broken_backup.process_uploaded_statement_files, steps 2 to *)
(* 6 over one text file of statements_dir.  Its parsers are, line for      *)
(* line, those of ocr_pipeline.                                            *)

\* steps 3 to 5: a row of a layout parser is added unless a transaction
\* with its date, amount, merchant and notes is there
RECURSIVE AddExtraRows(_, _, _)
AddExtraRows(d, rows, i) ==
    IF i > Len(rows) THEN d
    ELSE AddExtraRows(
             IF \E k \in 1..Len(d) :
                    /\ d[k].date = rows[i].Date /\ d[k].amount = rows[i].Amount
                    /\ d[k].merchant = rows[i].Merchant /\ d[k].notes = rows[i].Notes
             THEN d
             ELSE Append(d, Transaction(rows[i].Date, rows[i].Source, rows[i].Account,
                                        rows[i].Direction, rows[i].Amount,
                                        rows[i].Merchant, rows[i].Description,
                                        rows[i].Category, rows[i].Notes)),
             rows, i + 1)

\* a run with nothing new in uploads_dir and ocr_text in statements_dir:
\* step 2 keeps the rejected lines of the generic parser and drops its
\* rows, steps 3 to 5 add the rows of the Chase, Capital One and PayPal
\* parsers, step 6 records each rejected line; by counts the rows of each
\* parser
ProcessRecordingRejected ==
    \E today \in Todays :
    \E generic \in {process_statement_files(ocr_text, TRUE)} :
    \E chase \in {ChaseDetail(ocr_text, today.year)} :
    \E capone \in {_parse_capone_0728_statement(ocr_text, today)} :
    \E paypal \in {_parse_paypal_credit_detail(ocr_text, today)} :
    \E after \in {AddExtraRows(db, chase.rows \o capone \o paypal, 1)} :
        /\ ~parsed.done
        /\ db' = after
        /\ last' = [Summary("process_uploaded_statement_files") EXCEPT
                       !.before = db, !.inserted = Len(after) - Len(db)]
        /\ parsed' = [done |-> TRUE, fn |-> "process_uploaded_statement_files",
                      collect |-> TRUE, rows |-> chase.rows \o capone \o paypal,
                      rejected |-> generic.rejected, per |-> generic.per,
                      origin |-> chase.origin,
                      by |-> <<Len(chase.rows), Len(capone), Len(paypal)>>]
        /\ UNCHANGED <<cycle, nOps, artifacts, produced, checksums, prev, given, amtVars,
                       ocr_text>>

NextRejected == ProcessRecordingRejected

SpecRejected == ParseInit /\ [][NextRejected]_vars

\* the line the j-th row of the run was read from
RunOrigin(j) ==
    IF j <= parsed.by[1] THEN parsed.origin[j]
    ELSE IF j <= parsed.by[1] + parsed.by[2] THEN CaponeOrigin(j - parsed.by[1])
    ELSE PaypalOrigin(j - parsed.by[1] - parsed.by[2])

-----------------------------------------------------------------------------
(* The transaction-detail regions: ocr_pipeline._iter_transaction_lines    *)
(* and _count_candidates_in_file over one text file.                       *)

\* the first end marker of the part that follows the start marker at s
FirstEndOfPart(lines, s) ==
    CHOOSE e \in EndsOfPart(lines, s) :
        \A g \in EndsOfPart(lines, s) : g = e \/ ComesBefore(e, g)

\* lines 1476-1484 of _count_candidates_in_file: the whole lines of the
\* bodies it walks, a body being the text between a start marker and the
\* first end marker of its part; a part without end marker is skipped
CandidateBody(lines) ==
    {i \in 1..Len(lines) :
        \E s \in Occurrences(lines, ChaseStart) :
            /\ EndsOfPart(lines, s) # {}
            /\ s[1] < i
            /\ i < FirstEndOfPart(lines, s)[1]}

\* what a call on ocr_text that is no parser left in parsed
Called(fn, origin, raised, total) ==
    [done |-> TRUE, fn |-> fn, collect |-> FALSE, rows |-> <<>>, rejected |-> <<>>,
     per |-> <<>>, origin |-> origin, raised |-> raised, total |-> total]

\* _count_candidates_in_file(path)
CountCandidatesInFile ==
    \E out \in {_count_candidates_in_file(ocr_text.lines)} :
        /\ ~parsed.done
        /\ parsed' = Called("_count_candidates_in_file", <<>>, out.raised, out.total)
        /\ UNCHANGED <<dbVars, amtVars, ocr_text>>

\* _iter_transaction_lines(txt), run to its end: origin is the lines it
\* yields
IterTransactionLinesCall ==
    \E scanned \in {_iter_transaction_lines(ocr_text.lines)} :
        /\ ~parsed.done
        /\ parsed' = Called("_iter_transaction_lines", scanned, FALSE, 0)
        /\ UNCHANGED <<dbVars, amtVars, ocr_text>>

NextRegions == CountCandidatesInFile \/ IterTransactionLinesCall

SpecRegions == ParseInit /\ [][NextRegions]_vars

\* the lines of ocr_text between a start marker and the end marker that
\* follows it
InsideBlock ==
    {i \in 1..Len(ocr_text.lines) :
        \E s, e \in 1..Len(ocr_text.lines) :
            /\ s < i /\ i < e
            /\ Contains(ocr_text.lines[s], ChaseStart)
            /\ Contains(ocr_text.lines[e], ChaseEnd)
            /\ \A k \in (s + 1)..(e - 1) :
                   /\ ~Contains(ocr_text.lines[k], ChaseStart)
                   /\ ~Contains(ocr_text.lines[k], ChaseEnd)}

\* a date-prefixed transaction line that is no summary row
CandidateLine(line) ==
    /\ line_re(Split(line))
    /\ ~StartsWith(DescGroup(line), "Beginning Balance")
    /\ ~StartsWith(DescGroup(line), "Ending Balance")
    /\ ~StartsWith(DescGroup(line), "Total ")

\* C28: the per-file candidate count (_count_candidates_in_file) equals
\* the number of date-prefixed transaction-shaped lines lying between a
\* '*start*transaction detail' marker and the following '*end*transaction
\* detail' marker, summed over all such regions of the file, excluding
\* lines whose description starts with 'Beginning Balance', 'Ending
\* Balance' or 'Total '; it is computed from the file text on every call.
C28_CandidateCount ==
    (parsed.done /\ parsed.fn = "_count_candidates_in_file")
    => /\ ~parsed.raised
       /\ parsed.total = Cardinality({i \in InsideBlock : CandidateLine(ocr_text.lines[i])})

\* the call on a file with two transaction lines in a closed block ended
\* in an exception
C28_Witness ==
    /\ parsed.done /\ parsed.fn = "_count_candidates_in_file"
    /\ parsed.raised
    /\ Cardinality({i \in InsideBlock : CandidateLine(ocr_text.lines[i])}) = 2


\* the lines a finished call of _iter_transaction_lines yielded
Scanned == {parsed.origin[k] : k \in 1..Len(parsed.origin)}

\* C30: the Chase transaction-detail parser and the candidate counter
\* agree on which lines of a file lie inside a transaction-detail region:
\* a line is yielded by _iter_transaction_lines if and only if
\* _count_candidates_in_file walks it as a body line of a '*start*
\* transaction detail' ... '*end*transaction detail' block, also for files
\* with several blocks and for a block without end marker.
C30_SameRegions ==
    (parsed.done /\ parsed.fn = "_iter_transaction_lines")
    => Scanned = CandidateBody(ocr_text.lines)

\* a file with two closed blocks: the iterator stopped at the first end
\* marker, the counter walks a line of the second block too
C30_Witness ==
    /\ parsed.done /\ parsed.fn = "_iter_transaction_lines"
    /\ Cardinality(Occurrences(ocr_text.lines, ChaseStart)) = 2
    /\ Scanned # {}
    /\ \E i \in CandidateBody(ocr_text.lines) :
           /\ i \notin Scanned
           /\ line_re(Split(ocr_text.lines[i]))

-----------------------------------------------------------------------------
(* The detail lines of the PayPal transaction table.                       *)

\* the lines of the table walked by _parse_paypal_credit_detail that
\* detail_re matches
DetailLines ==
    {k \in PaypalStart..(PaypalStop - 1) : detail_re(Split(ocr_text.lines[k]))}

\* C29: inside the PayPal transaction table (after the column header and
\* before 'Cardholder news and information') every line that matches the
\* detail pattern (MM/DD date, reference, description, amount) produces
\* exactly one row, whatever words its description contains, and leaves
\* the current section as it was: only lines that are not detail lines are
\* read as section headers.
C29_DetailLineGivesOneRow ==
    (parsed.done /\ parsed.fn = "_parse_paypal_credit_detail"
     /\ _is_paypal_credit_statement(ocr_text.lines))
    => /\ \A k \in DetailLines :
              /\ Len(PaypalAfter(k).rows) = Len(PaypalAfter(k - 1).rows) + 1
              /\ PaypalAfter(k).section = PaypalAfter(k - 1).section
       /\ Len(parsed.rows) >= Cardinality(DetailLines)

\* a detail line whose description holds the word PAYMENTS gave no row and
\* became the section header of the rows after it
C29_Witness ==
    /\ parsed.done /\ parsed.fn = "_parse_paypal_credit_detail"
    /\ _is_paypal_credit_statement(ocr_text.lines)
    /\ \E k \in DetailLines :
           /\ Contains(Upper(ocr_text.lines[k]), "PAYMENTS")
           /\ PaypalAfter(k).rows = PaypalAfter(k - 1).rows
           /\ PaypalAfter(k - 1).section = "purchases"
           /\ PaypalAfter(k).section = "payments"
           /\ Len(parsed.rows) < Cardinality(DetailLines)
           /\ \E j \in 1..Len(parsed.rows) : PaypalOrigin(j) = k + 1

=============================================================================
